---- MODULE Spec2Model ----
(***************************************************************************)
(* Trust chain of vinzy-engine: the hash-chained, signed audit log         *)
(* (audit/service.py), the versioned HMAC keyring (common/config.py), the  *)
(* license-key codec (keygen/generator.py, keygen/validator.py), minting   *)
(* and validation of keys by the service (licensing/service.py) and the    *)
(* signed leases (keygen/lease.py).                                        *)
(*                                                                         *)
(* Cryptographic primitives are modelled symbolically: a SHA-256 digest or *)
(* an HMAC-SHA256 tag is the term built from its inputs, so two digests    *)
(* are equal exactly when their inputs are equal (no collisions).          *)
(***************************************************************************)
EXTENDS Integers, Sequences, FiniteSets, TLC

VARIABLES
    events,     \* rows of table audit_events, in insertion order
    keyring,    \* VinzySettings.hmac_keyring: version -> secret
    pending,    \* per request: the event built by record_event, not yet flushed
    tampered,   \* whether a stored row has been edited behind the service's back
    key,        \* key codec: the license key under consideration
    kprefix,    \* key codec: product_prefix passed to generate_key
    ksecret,    \* key codec: hmac_key passed to generate_key
    kversion,   \* key codec: version passed to generate_key
    ktampered,  \* key codec: whether one character of key was replaced
    arg,        \* key validation: the value passed as the key argument
    result,     \* key validation: the outcome of the call made on arg
    clock,      \* lease: the current time, in ticks
    lease,      \* lease: the lease value the client holds
    issue,      \* lease: the create_lease call that produced it
    ltampered,  \* lease: what was changed after creation ("" for nothing)
    lresult,    \* lease: the outcome of the last verify_lease call
    client,     \* client SDK: the constructor arguments of the LicenseClient, once built
    lease_file, \* client SDK: the content of the file at lease_cache_path
    cached_lease,  \* client SDK: LicenseClient._cached_lease
    in_request, \* client SDK: whether a _request call is under way
    attempt,    \* client SDK: loop variable of the _request call under way
    last_error, \* client SDK: last_error of the _request call under way
    outcomes,   \* client SDK: what each HTTP attempt of the last _request call met
    reply,      \* client SDK: the dict the last _request call returned (data in validate)
    cresult,    \* client SDK: the outcome of the last validate or validate_offline call
    settings,   \* configuration: the VinzySettings built from the environment
    cfgresult,  \* configuration: the outcome of the last read of a keyring property
    license_row, \* activation: machines_limit and machines_used of the license row
    machines,   \* activation: fingerprints of the machine rows of the license
    sessions,   \* activation: per request, the activate or deactivate call under way
    aresult     \* activation: the outcome of the call that finished last

auditVars == <<events, keyring, pending, tampered>>
keyVars == <<key, kprefix, ksecret, kversion, ktampered>>
callVars == <<arg, result>>
leaseVars == <<clock, lease, issue, ltampered, lresult>>
clientVars == <<client, lease_file, cached_lease, in_request, attempt, last_error, outcomes, reply, cresult>>
cfgVars == <<settings, cfgresult>>
actVars == <<license_row, machines, sessions, aresult>>
vars ==
    <<events, keyring, pending, tampered, key, kprefix, ksecret, kversion, ktampered,
      arg, result, clock, lease, issue, ltampered, lresult,
      client, lease_file, cached_lease, in_request, attempt, last_error, outcomes, reply, cresult,
      settings, cfgresult,
      license_row, machines, sessions, aresult>>

(***************************************************************************)
(* Bounds and input sets                                                   *)
(***************************************************************************)
MaxEvents == 3
MaxRotations == 1

Licenses == {"lic-A", "lic-B"}
Requests == {"r1", "r2"}

\* Python None / JSON null
None == <<>>

\* an empty dict
EmptyDict == <<>>

\* a Python value passed where a str is expected: its type, and its characters
\* when it is a str
PyStr(s) == [type |-> "str", val |-> s]

PyNone == [type |-> "NoneType", val |-> <<>>]

\* the int 12345
PyInt == [type |-> "int", val |-> <<>>]

\* bool(x)
Truthy(x) == IF x.type = "str" THEN x.val # <<>> ELSE x.type = "int"

\* no lease held: create_lease not called yet
NoLease == [type |-> "", items |-> <<>>]

NoIssue == [payload |-> <<>>, hmac_key |-> "", ttl_seconds |-> 0, at |-> 0]

\* verify_lease not called yet
NoLeaseResult == [called |-> FALSE, hmac_key |-> "", at |-> 0, raised |-> "", value |-> FALSE]

\* the value None where a lease dict is expected
NoneLease == [type |-> "NoneType", items |-> <<>>]

\* no LicenseClient constructed yet
NoClient == [constructed |-> FALSE, max_retries |-> 0, lease_cache_path |-> FALSE]

\* _request has not returned
NoData ==
    [returned |-> FALSE, error |-> FALSE, code |-> "", valid |-> FALSE,
     features |-> <<>>, lease |-> NoneLease]

\* validate / validate_offline not called yet
NoClientResult ==
    [called |-> "", at |-> 0, raised |-> "", valid |-> FALSE, code |-> "",
     features |-> <<>>, lease |-> NoneLease, calls |-> <<>>]

\* no VinzySettings built yet
NoSettings == [built |-> FALSE, hmac_key |-> "", hmac_keys |-> [kind |-> "", pairs |-> <<>>]]

\* no keyring property read yet
NoCfgResult == [op |-> "", raised |-> "", ring |-> <<>>, version |-> 0, secret |-> ""]

\* no license row created yet
NoLicenseRow == [exists |-> FALSE, machines_limit |-> 0, machines_used |-> 0]

\* a request that is not inside activate or deactivate
IdleCall == [pc |-> "idle", op |-> "", fingerprint |-> "", machines_used |-> 0]

NoSessions == [r \in Requests |-> IdleCall]

\* no activate / deactivate call finished yet
NoActResult == [op |-> "", by |-> "", raised |-> "", code |-> "", returned |-> FALSE]

\* validate_key* / verify_hmac* not called yet
NoResult ==
    [op |-> "", hmac_key |-> "", hmac_keys |-> <<>>, raised |-> "", valid |-> FALSE,
     code |-> "", product_prefix |-> <<>>, calls |-> <<>>, tried |-> <<>>]

\* (event_type, actor, detail) of the record_event calls made
CallShapes ==
    { [event_type |-> "license.created", actor |-> "system",
       detail |-> [product_code |-> "ZUL"]],
      [event_type |-> "license.validated", actor |-> "api",
       detail |-> EmptyDict] }

(***************************************************************************)
(* Keyring (common/config.py)                                              *)
(***************************************************************************)
DefaultHmacKey == "insecure-hmac-key-change-me"

\* hmac_keys unset: the scalar hmac_key is version 0
InitialKeyring == (0 :> DefaultHmacKey)

SetMax(S) == CHOOSE m \in S : \A n \in S : n <= m

CurrentHmacVersion(ring) == SetMax(DOMAIN ring)

CurrentHmacKey(ring) == ring[SetMax(DOMAIN ring)]

(***************************************************************************)
(* Audit chain (audit/service.py)                                          *)
(***************************************************************************)
\* keys of detail dicts in sorted order (json.dumps sort_keys=True)
SortedDetailKeys == <<"i", "product_code">>

\* canonical JSON of a detail dict: its (key, value) pairs in key order
JsonDumpsDetail(detail) ==
    LET InDict(k) == k \in DOMAIN detail
        keys == SelectSeq(SortedDetailKeys, InDict)
    IN [n \in 1..Len(keys) |-> <<keys[n], detail[keys[n]]>>]

\* hashlib.sha256(data).hexdigest() as a term
Sha256Hex(data) == <<"sha256", data>>

\* hmac.new(secret, msg, sha256).hexdigest() as a term
HmacSha256Hex(secret, msg) == <<"hmac-sha256", secret, msg>>

ComputeEventHash(event_type, actor, detail, prev_hash) ==
    Sha256Hex(<< <<"actor", actor>>,
                 <<"detail", JsonDumpsDetail(detail)>>,
                 <<"event_type", event_type>>,
                 <<"prev_hash", prev_hash>> >>)

\* mutant of VerifySignature: only the current secret is tried
VerifySignatureCurrentOnly(ring, event_hash, signature) ==
    HmacSha256Hex(CurrentHmacKey(ring), event_hash) = signature

Sign(ring, event_hash) == HmacSha256Hex(CurrentHmacKey(ring), event_hash)

VerifySignature(ring, event_hash, signature) ==
    \E v \in DOMAIN ring : HmacSha256Hex(ring[v], event_hash) = signature

\* primary-key default of a new row
GenerateUuid(n) == <<"uuid", n>>

\* created_at default of a new row: creation order, strictly increasing
CreatedAtDefault(evs) == 2 * (Len(evs) + 1)

RECURSIVE SortIdx(_, _, _)
SortIdx(evs, S, asc) ==
    IF S = {} THEN <<>>
    ELSE LET m == CHOOSE i \in S : \A j \in S :
                      IF asc THEN evs[i].created_at <= evs[j].created_at
                             ELSE evs[i].created_at >= evs[j].created_at
         IN <<evs[m]>> \o SortIdx(evs, S \ {m}, asc)

\* mutant of SelectByLicense: the where clause is missing
SelectAllLicenses(evs, lic, asc) == SortIdx(evs, 1..Len(evs), asc)

\* select(...).where(license_id == lic).order_by(created_at asc | desc)
SelectByLicense(evs, lic, asc) ==
    SortIdx(evs, {i \in 1..Len(evs) : evs[i].license_id = lic}, asc)

\* mutant of GetChainHead: ordered oldest first
GetChainHeadOldest(evs, lic) ==
    LET rows == SelectByLicense(evs, lic, TRUE)
    IN IF rows = <<>> THEN <<>> ELSE <<rows[1]>>

\* the rows of get_chain_head's query: newest first, limit 1
GetChainHead(evs, lic) ==
    LET rows == SelectByLicense(evs, lic, FALSE)
    IN IF rows = <<>> THEN <<>> ELSE <<rows[1]>>

\* list.index(x), 0-based: the first position holding x
ListIndex(rows, x) ==
    (CHOOSE i \in 1..Len(rows) :
        rows[i] = x /\ \A j \in 1..(i - 1) : rows[j] # x) - 1

\* mutant of BreakResult: the failing event is counted as checked
BreakResultCountsFailing(rows, event) ==
    [valid |-> FALSE, events_checked |-> ListIndex(rows, event) + 1,
     break_at |-> event.id]

\* the result verify_chain returns at the first failing event
BreakResult(rows, event) ==
    [valid |-> FALSE, events_checked |-> ListIndex(rows, event), break_at |-> event.id]

\* mutant of VerifyLoop: the prev_hash linkage is not checked
RECURSIVE VerifyLoopNoLinkage(_, _, _, _)
VerifyLoopNoLinkage(rows, n, prev_hash, ring) ==
    IF n > Len(rows)
    THEN [valid |-> TRUE, events_checked |-> Len(rows), break_at |-> None]
    ELSE LET event == rows[n] IN
         IF event.event_hash #
                 ComputeEventHash(event.event_type, event.actor, event.detail,
                                  event.prev_hash)
              THEN BreakResult(rows, event)
         ELSE IF ~VerifySignature(ring, event.event_hash, event.signature)
              THEN BreakResult(rows, event)
         ELSE VerifyLoopNoLinkage(rows, n + 1, event.event_hash, ring)

RECURSIVE VerifyLoop(_, _, _, _)
VerifyLoop(rows, n, prev_hash, ring) ==
    IF n > Len(rows)
    THEN [valid |-> TRUE, events_checked |-> Len(rows), break_at |-> None]
    ELSE LET event == rows[n] IN
         IF event.prev_hash # prev_hash THEN BreakResult(rows, event)
         ELSE IF event.event_hash #
                 ComputeEventHash(event.event_type, event.actor, event.detail,
                                  event.prev_hash)
              THEN BreakResult(rows, event)
         ELSE IF ~VerifySignature(ring, event.event_hash, event.signature)
              THEN BreakResult(rows, event)
         ELSE VerifyLoop(rows, n + 1, event.event_hash, ring)

\* mutant of VerifyChain: walks the chain newest first
VerifyChainNewestFirst(evs, ring, lic) ==
    LET rows == SelectByLicense(evs, lic, FALSE)
    IN IF rows = <<>>
       THEN [valid |-> TRUE, events_checked |-> 0, break_at |-> None]
       ELSE VerifyLoop(rows, 1, None, ring)

VerifyChain(evs, ring, lic) ==
    LET rows == SelectByLicense(evs, lic, TRUE)
    IN IF rows = <<>>
       THEN [valid |-> TRUE, events_checked |-> 0, break_at |-> None]
       ELSE VerifyLoop(rows, 1, None, ring)

\* mutant of BuildEvent: the hash of a first event is seeded with the license
BuildEventSeededByLicense(evs, ring, lic, event_type, actor, detail) ==
    LET head == GetChainHead(evs, lic)
        prev_hash == IF head # <<>> THEN head[1].event_hash ELSE None
        seed == IF head # <<>> THEN prev_hash ELSE Sha256Hex(lic)
        event_hash == ComputeEventHash(event_type, actor, detail, seed)
    IN [id |-> None, license_id |-> lic, event_type |-> event_type,
        actor |-> actor, detail |-> detail, prev_hash |-> prev_hash,
        event_hash |-> event_hash, signature |-> Sign(ring, event_hash),
        created_at |-> 0]

\* mutant of BuildEvent: links to the head's prev_hash, not its event_hash
BuildEventPrevOfHead(evs, ring, lic, event_type, actor, detail) ==
    LET head == GetChainHead(evs, lic)
        prev_hash == IF head # <<>> THEN head[1].prev_hash ELSE None
        event_hash == ComputeEventHash(event_type, actor, detail, prev_hash)
    IN [id |-> None, license_id |-> lic, event_type |-> event_type,
        actor |-> actor, detail |-> detail, prev_hash |-> prev_hash,
        event_hash |-> event_hash, signature |-> Sign(ring, event_hash),
        created_at |-> 0]

\* the AuditEventModel built by record_event from the head it has read
\* (detail = detail or {}: a None detail is the empty dict, both <<>> here)
BuildEvent(evs, ring, lic, event_type, actor, detail) ==
    LET head == GetChainHead(evs, lic)
        prev_hash == IF head # <<>> THEN head[1].event_hash ELSE None
        event_hash == ComputeEventHash(event_type, actor, detail, prev_hash)
    IN [id |-> None, license_id |-> lic, event_type |-> event_type,
        actor |-> actor, detail |-> detail, prev_hash |-> prev_hash,
        event_hash |-> event_hash, signature |-> Sign(ring, event_hash),
        created_at |-> 0]

\* mutant of SessionAddFlush: the license's newest row is updated in place
SessionUpdateHeadFlush(evs, event) ==
    LET S == {i \in 1..Len(evs) : evs[i].license_id = event.license_id}
    IN IF S = {}
       THEN Append(evs, [event EXCEPT !.id = GenerateUuid(Len(evs) + 1),
                                      !.created_at = CreatedAtDefault(evs)])
       ELSE [evs EXCEPT ![SetMax(S)] =
                [event EXCEPT !.id = evs[SetMax(S)].id,
                              !.created_at = evs[SetMax(S)].created_at]]

\* session.add(event); session.flush(): INSERT of one row with its defaults
SessionAddFlush(evs, event) ==
    Append(evs, [event EXCEPT !.id = GenerateUuid(Len(evs) + 1),
                              !.created_at = CreatedAtDefault(evs)])

InFlight == Cardinality({r \in Requests : pending[r] # <<>>})

\* record_event up to its first await: read the head, hash, sign
RecordEventRead(r, lic, shape) ==
    /\ pending[r] = <<>>
    /\ Len(events) + InFlight < MaxEvents
    /\ pending' = [pending EXCEPT ![r] =
           <<BuildEvent(events, keyring, lic, shape.event_type, shape.actor,
                        shape.detail)>>]
    /\ UNCHANGED <<events, keyring, tampered>>
    /\ UNCHANGED <<keyVars, callVars, leaseVars, clientVars, cfgVars, actVars>>

\* record_event from session.add to its return
RecordEventFlush(r) ==
    /\ pending[r] # <<>>
    /\ events' = SessionAddFlush(events, pending[r][1])
    /\ pending' = [pending EXCEPT ![r] = <<>>]
    /\ UNCHANGED <<keyring, tampered>>
    /\ UNCHANGED <<keyVars, callVars, leaseVars, clientVars, cfgVars, actVars>>

\* the secret configured for a new keyring version
RotatedSecret(version) == "rotated-hmac-key-" \o ToString(version)

\* redeploy with a new highest version added and the old entries retained
RotateKey ==
    /\ \A r \in Requests : pending[r] = <<>>
    /\ Cardinality(DOMAIN keyring) <= MaxRotations
    /\ LET version == CurrentHmacVersion(keyring) + 1
       IN keyring' = keyring @@ (version :> RotatedSecret(version))
    /\ UNCHANGED <<events, pending, tampered>>
    /\ UNCHANGED <<keyVars, callVars, leaseVars, clientVars, cfgVars, actVars>>

\* the caller's per-license serialization: no other append to lic is in flight
LicenseFree(lic) ==
    \A r \in Requests :
        IF pending[r] = <<>> THEN TRUE ELSE pending[r][1].license_id # lic

SerializedRecordEventRead(r, lic, shape) ==
    /\ LicenseFree(lic)
    /\ RecordEventRead(r, lic, shape)

Init ==
    /\ events = <<>>
    /\ keyring = InitialKeyring
    /\ pending = [r \in Requests |-> <<>>]
    /\ tampered = FALSE
    /\ key = <<>>
    /\ kprefix = <<>>
    /\ ksecret = DefaultHmacKey
    /\ kversion = 0
    /\ ktampered = FALSE
    /\ arg = PyStr(<<>>)
    /\ result = NoResult
    /\ clock = 0
    /\ lease = NoLease
    /\ issue = NoIssue
    /\ ltampered = ""
    /\ lresult = NoLeaseResult
    /\ client = NoClient
    /\ lease_file = NoLease
    /\ cached_lease = NoneLease
    /\ in_request = FALSE
    /\ attempt = 0
    /\ last_error = ""
    /\ outcomes = <<>>
    /\ reply = NoData
    /\ cresult = NoClientResult
    /\ settings = NoSettings
    /\ cfgresult = NoCfgResult
    /\ license_row = NoLicenseRow
    /\ machines = {}
    /\ sessions = NoSessions
    /\ aresult = NoActResult

\* requests run concurrently with no serialization of appends
Next ==
    \/ \E r \in Requests, lic \in Licenses, shape \in CallShapes :
           RecordEventRead(r, lic, shape)
    \/ \E r \in Requests : RecordEventFlush(r)
    \/ RotateKey

Spec == Init /\ [][Next]_vars

\* appends to one license are serialized by the caller
NextSerial ==
    \/ \E r \in Requests, lic \in Licenses, shape \in CallShapes :
           SerializedRecordEventRead(r, lic, shape)
    \/ \E r \in Requests : RecordEventFlush(r)
    \/ RotateKey

SerialSpec == Init /\ [][NextSerial]_vars

(***************************************************************************)
(* A stored row edited behind the service's back (direct database access,  *)
(* as tests/unit/test_audit.py does with event2.event_hash = "0" * 64).    *)
(* The editor knows no keyring secret: it can write any constant, copy a   *)
(* value of another row, or sign with a key of its own.                    *)
(***************************************************************************)
BogusHash == <<"0000000000000000">>
BogusSignature == <<"ffffffffffffffff">>
AttackerKey == "attacker-key"

EventFields ==
    {"id", "license_id", "event_type", "actor", "detail", "prev_hash",
     "event_hash", "signature", "created_at"}

\* the values an editor can put into a field of row i
TamperValues(evs, i, f) ==
    CASE f = "id" -> {GenerateUuid(0)}
      [] f = "license_id" -> Licenses
      [] f = "event_type" -> {"license.created", "license.validated", "license.revoked"}
      [] f = "actor" -> {"system", "api", "mallory"}
      [] f = "detail" -> {[product_code |-> "ZUL"], [product_code |-> "AAA"]}
      [] f = "prev_hash" -> {None, BogusHash} \cup {evs[j].event_hash : j \in 1..Len(evs)}
      [] f = "event_hash" -> {BogusHash} \cup {evs[j].event_hash : j \in 1..Len(evs)}
      [] f = "signature" ->
            {BogusSignature, HmacSha256Hex(AttackerKey, evs[i].event_hash)}
            \cup {evs[j].signature : j \in 1..Len(evs)}
      [] f = "created_at" ->
            (1..(2 * Len(evs) + 1)) \ {evs[j].created_at : j \in 1..Len(evs)}

\* one field of one stored row gets another value
TamperField(i, f) ==
    /\ ~tampered
    /\ \E v \in TamperValues(events, i, f) :
           /\ v # events[i][f]
           /\ events' = [events EXCEPT ![i] = [events[i] EXCEPT ![f] = v]]
    /\ tampered' = TRUE
    /\ UNCHANGED <<keyring, pending>>
    /\ UNCHANGED <<keyVars, callVars, leaseVars, clientVars, cfgVars, actVars>>

\* a single writer, key rotation, and one edit of a stored row
NextTamper ==
    \/ \E lic \in Licenses, shape \in CallShapes :
           SerializedRecordEventRead("r1", lic, shape)
    \/ RecordEventFlush("r1")
    \/ RotateKey
    \/ \E i \in 1..Len(events), f \in EventFields : TamperField(i, f)

TamperSpec == Init /\ [][NextTamper]_vars

(***************************************************************************)
(* Audit chain: properties                                                 *)
(***************************************************************************)
\* the stored events of a license in the order they were appended
AppendedTo(lic) ==
    LET OfLicense(e) == e.license_id = lic IN SelectSeq(events, OfLicense)

\* whether the n-th of rows passes each of verify_chain's three checks
LinkageOk(rows, n) ==
    rows[n].prev_hash = (IF n = 1 THEN None ELSE rows[n - 1].event_hash)

HashOk(rows, n) ==
    rows[n].event_hash =
        ComputeEventHash(rows[n].event_type, rows[n].actor, rows[n].detail,
                         rows[n].prev_hash)

SignatureOk(rows, n, ring) ==
    \E v \in DOMAIN ring :
        rows[n].signature = HmacSha256Hex(ring[v], rows[n].event_hash)

EventPasses(rows, n, ring) ==
    LinkageOk(rows, n) /\ HashOk(rows, n) /\ SignatureOk(rows, n, ring)

\* C1: after n serialized record_event calls for a license, with the keyring
\* unchanged and no stored event modified, verify_chain returns valid=true,
\* events_checked=n, break_at=null (n = 0 included).
C1_IntactChainVerifies ==
    keyring = InitialKeyring =>
        \A lic \in Licenses :
            VerifyChain(events, keyring, lic) =
                [valid |-> TRUE, events_checked |-> Len(AppendedTo(lic)),
                 break_at |-> None]

C1_Witness ==
    /\ keyring = InitialKeyring
    /\ \E lic \in Licenses :
           /\ Len(AppendedTo(lic)) = 3
           /\ VerifyChain(events, keyring, lic).events_checked = 3
           /\ VerifyChain(events, keyring, lic).valid

\* C2: changing the stored value of any one field of any one event of a chain
\* that verify_chain accepts makes verify_chain for that license return
\* valid=false.
C2_AnyTamperDetected ==
    [][(~tampered /\ tampered') =>
          \A i \in 1..Len(events) :
              (events'[i] # events[i]
               /\ VerifyChain(events, keyring, events[i].license_id).valid)
              => ~VerifyChain(events', keyring', events[i].license_id).valid]_vars

\* C3: no two events of one license share a prev_hash (the chain never forks).
C3_NoFork ==
    \A i, j \in 1..Len(events) :
        (i # j /\ events[i].license_id = events[j].license_id)
        => events[i].prev_hash # events[j].prev_hash

\* C4: when verify_chain returns valid=false, break_at is the id of the first
\* event, oldest to newest, failing one of the three checks, and events_checked
\* is the number of events before it, all of which pass the three checks.
C4_BreakAtFirstFailure ==
    \A lic \in Licenses :
        LET rows == SelectByLicense(events, lic, TRUE)
            res == VerifyChain(events, keyring, lic)
        IN ~res.valid =>
               \E n \in 1..Len(rows) :
                   /\ ~EventPasses(rows, n, keyring)
                   /\ \A m \in 1..(n - 1) : EventPasses(rows, m, keyring)
                   /\ res.break_at = rows[n].id
                   /\ res.events_checked = n - 1

C4_Witness ==
    \E lic \in Licenses :
        LET rows == SelectByLicense(events, lic, TRUE)
        IN /\ Len(rows) >= 2
           /\ rows[2].event_hash = BogusHash
           /\ VerifyChain(events, keyring, lic) =
                  [valid |-> FALSE, events_checked |-> 1, break_at |-> rows[2].id]

\* C5: with key rotations (a new highest version added, older entries kept)
\* interleaved with serialized record_event calls, every stored signature is
\* accepted by the keyring and verify_chain returns valid=true for every chain.
C5_RotationKeepsHistoryValid ==
    /\ \A i \in 1..Len(events) :
           VerifySignature(keyring, events[i].event_hash, events[i].signature)
    /\ \A lic \in Licenses : VerifyChain(events, keyring, lic).valid

C5_Witness ==
    \E lic \in Licenses :
        LET rows == AppendedTo(lic)
        IN /\ Len(rows) >= 2
           /\ rows[1].signature # Sign(keyring, rows[1].event_hash)
           /\ rows[Len(rows)].signature = Sign(keyring, rows[Len(rows)].event_hash)
           /\ VerifyChain(events, keyring, lic).events_checked = Len(rows)

\* C6: after serialized record_event calls the chain head is the most recently
\* appended event, the first event has prev_hash = null, and each later event's
\* prev_hash is the event_hash of the event appended before it.
C6_HeadAndLinkage ==
    \A lic \in Licenses :
        LET rows == AppendedTo(lic)
        IN /\ GetChainHead(events, lic) =
                  (IF rows = <<>> THEN <<>> ELSE <<rows[Len(rows)]>>)
           /\ rows # <<>> => rows[1].prev_hash = None
           /\ \A n \in 2..Len(rows) : rows[n].prev_hash = rows[n - 1].event_hash

C6_Witness ==
    \E lic \in Licenses :
        /\ Len(AppendedTo(lic)) >= 2
        /\ GetChainHead(events, lic)[1].prev_hash = AppendedTo(lic)[1].event_hash

\* C7: record_event is append-only: a call adds exactly one event, to the given
\* license's chain, and no stored event is changed or removed.
C7_AppendOnly ==
    [][/\ events' # events =>
              /\ Len(events') = Len(events) + 1
              /\ SubSeq(events', 1, Len(events)) = events
       /\ \A r \in Requests :
              (pending[r] # <<>> /\ pending'[r] = <<>>) =>
                  /\ Len(events') = Len(events) + 1
                  /\ SubSeq(events', 1, Len(events)) = events
                  /\ events'[Len(events')].license_id = pending[r][1].license_id
                  /\ \A lic \in Licenses \ {pending[r][1].license_id} :
                         AppendedTo(lic)' = AppendedTo(lic)]_vars

C7_Witness ==
    /\ Len(events) = 3
    /\ \A lic \in Licenses : AppendedTo(lic) # <<>>

\* the license a record_event step of request r works on
StepLicense(r) ==
    IF pending[r] # <<>> THEN pending[r][1].license_id ELSE pending'[r][1].license_id

C8_Frame ==
    \A r \in Requests :
        pending'[r] # pending[r] =>
            \A lic \in Licenses \ {StepLicense(r)} :
                /\ GetChainHead(events', lic) = GetChainHead(events, lic)
                /\ SelectByLicense(events', lic, TRUE) = SelectByLicense(events, lic, TRUE)
                /\ VerifyChain(events', keyring', lic) = VerifyChain(events, keyring, lic)

\* C8: a record_event on one license, in any interleaving with record_event
\* calls on another license, never changes the other license's chain head,
\* events or verify_chain result, and both chains verify as valid.
C8_LicensesIndependent ==
    /\ [][C8_Frame]_vars
    /\ [](\A lic \in Licenses : VerifyChain(events, keyring, lic).valid)

C8_Witness ==
    /\ events # <<>>
    /\ pending["r1"] # <<>>
    /\ pending["r2"] # <<>>
    /\ pending["r1"][1].license_id # pending["r2"][1].license_id
    /\ pending["r1"][1].prev_hash # pending["r2"][1].prev_hash

(***************************************************************************)
(* Key codec (keygen/generator.py)                                         *)
(*                                                                         *)
(* A string is a sequence of characters.  A character is a record: a       *)
(* literal character c, or the pos-th character of the base32 text of an   *)
(* HMAC-SHA256 digest (a term, as above: equal only for equal secret and   *)
(* message).                                                               *)
(***************************************************************************)
SEGMENT_LEN == 5
RANDOM_SEGMENTS == 5
HMAC_SEGMENTS == 2
PREFIX_LEN == 3

BASE32_ALPHABET ==
    <<"A", "B", "C", "D", "E", "F", "G", "H", "I", "J", "K", "L", "M", "N", "O", "P",
      "Q", "R", "S", "T", "U", "V", "W", "X", "Y", "Z", "2", "3", "4", "5", "6", "7">>

LowerLetters ==
    <<"a", "b", "c", "d", "e", "f", "g", "h", "i", "j", "k", "l", "m", "n", "o", "p",
      "q", "r", "s", "t", "u", "v", "w", "x", "y", "z">>

Lit(c) == [ch |-> c, mac |-> <<>>]

Str(cs) == [n \in 1..Len(cs) |-> Lit(cs[n])]

Dash == Lit("-")

\* the pos-th character of base64.b32encode(hmac.new(secret, message).digest())
DigestB32Char(secret, message, pos) == [ch |-> "#", mac |-> <<secret, message, pos>>]

\* str.upper() of one character
UpperChar(x) ==
    IF \E n \in 1..Len(LowerLetters) : x.ch = LowerLetters[n]
    THEN Lit(BASE32_ALPHABET[CHOOSE n \in 1..Len(LowerLetters) : x.ch = LowerLetters[n]])
    ELSE x

Upper(s) == [n \in 1..Len(s) |-> UpperChar(s[n])]

\* s[:n]
Take(s, n) == SubSeq(s, 1, IF Len(s) < n THEN Len(s) ELSE n)

\* s.ljust(n, fill)
Ljust(s, n, fill) == s \o [k \in 1..(IF Len(s) < n THEN n - Len(s) ELSE 0) |-> fill]

RECURSIVE Join(_, _)
\* sep.join(parts)
Join(parts, sep) ==
    IF parts = <<>> THEN <<>>
    ELSE IF Len(parts) = 1 THEN parts[1]
    ELSE parts[1] \o <<sep>> \o Join(Tail(parts), sep)

RECURSIVE Concat(_)
\* "".join(parts)
Concat(parts) == IF parts = <<>> THEN <<>> ELSE parts[1] \o Concat(Tail(parts))

RECURSIVE SplitFrom(_, _, _)
SplitFrom(s, sep, cur) ==
    IF s = <<>> THEN <<cur>>
    ELSE IF Head(s) = sep THEN <<cur>> \o SplitFrom(Tail(s), sep, <<>>)
    ELSE SplitFrom(Tail(s), sep, Append(cur, Head(s)))

\* s.split(sep)
Split(s, sep) == SplitFrom(s, sep, <<>>)

EncodeVersion(version) == Lit(BASE32_ALPHABET[(version % 32) + 1])

\* _compute_hmac: first 10 base32 characters of HMAC-SHA256 over "prefix-random"
ComputeHmac(product_prefix, random_part, hmac_key) ==
    LET message == product_prefix \o <<Dash>> \o random_part
    IN [pos \in 1..(SEGMENT_LEN * HMAC_SEGMENTS) |->
           DigestB32Char(hmac_key, message, pos)]

\* mutant of GenerateKeyFrom: signed before the version character is stamped
GenerateKeySignedBeforeStamp(product_prefix, hmac_key, version, random_segments) ==
    LET prefix == Ljust(Take(Upper(product_prefix), PREFIX_LEN), PREFIX_LEN, Lit("X"))
        hmac_str == ComputeHmac(prefix, Join(random_segments, Dash), hmac_key)
        seg0 == [random_segments[1] EXCEPT ![1] = EncodeVersion(version)]
        segments == [random_segments EXCEPT ![1] = seg0]
        random_part == Join(segments, Dash)
        hmac_seg1 == SubSeq(hmac_str, 1, SEGMENT_LEN)
        hmac_seg2 == SubSeq(hmac_str, SEGMENT_LEN + 1, SEGMENT_LEN * 2)
    IN prefix \o <<Dash>> \o random_part \o <<Dash>> \o hmac_seg1 \o <<Dash>> \o hmac_seg2

\* generate_key, given the five segments _random_segment() returned
GenerateKeyFrom(product_prefix, hmac_key, version, random_segments) ==
    LET prefix == Ljust(Take(Upper(product_prefix), PREFIX_LEN), PREFIX_LEN, Lit("X"))
        seg0 == [random_segments[1] EXCEPT ![1] = EncodeVersion(version)]
        segments == [random_segments EXCEPT ![1] = seg0]
        random_part == Join(segments, Dash)
        hmac_str == ComputeHmac(prefix, random_part, hmac_key)
        hmac_seg1 == SubSeq(hmac_str, 1, SEGMENT_LEN)
        hmac_seg2 == SubSeq(hmac_str, SEGMENT_LEN + 1, SEGMENT_LEN * 2)
    IN prefix \o <<Dash>> \o random_part \o <<Dash>> \o hmac_seg1 \o <<Dash>> \o hmac_seg2

\* mutant of VerifyHmac: only the first signature segment is compared
VerifyHmacFirstSegmentOnly(k, hmac_key) ==
    LET parts == Split(k, Dash) IN
    IF Len(parts) # 1 + RANDOM_SEGMENTS + HMAC_SEGMENTS THEN FALSE
    ELSE LET prefix == parts[1]
             random_part == Join(SubSeq(parts, 2, 1 + RANDOM_SEGMENTS), Dash)
             provided_hmac == parts[2 + RANDOM_SEGMENTS]
             expected_hmac == ComputeHmac(prefix, random_part, hmac_key)
         IN provided_hmac = SubSeq(expected_hmac, 1, SEGMENT_LEN)

\* verify_hmac
VerifyHmac(k, hmac_key) ==
    LET parts == Split(k, Dash) IN
    IF Len(parts) # 1 + RANDOM_SEGMENTS + HMAC_SEGMENTS THEN FALSE
    ELSE LET prefix == parts[1]
             random_part == Join(SubSeq(parts, 2, 1 + RANDOM_SEGMENTS), Dash)
             provided_hmac == Concat(SubSeq(parts, 2 + RANDOM_SEGMENTS, Len(parts)))
             expected_hmac == ComputeHmac(prefix, random_part, hmac_key)
         IN provided_hmac = expected_hmac

\* product_prefix arguments: a product code, lower case, short, long, with a dash
PrefixInputs ==
    { Str(<<"Z", "U", "L">>), Str(<<"z", "u", "l">>), Str(<<"a", "b">>),
      Str(<<"v", "i", "n", "z", "y">>), Str(<<"a", "-", "b">>) }

SecretInputs == {DefaultHmacKey, "test-hmac-key-for-unit-tests"}

VersionInputs == {0, 1, 33}

\* values _random_segment() may return
RandomSegmentValues ==
    { Str(<<"A", "A", "A", "A", "A">>), Str(<<"Q", "7", "B", "2", "Z">>) }

\* the replacement characters of tests/unit/test_adversarial.py
TamperSymbols == {"A", "B"}

GenerateKey(product_prefix, hmac_key, version, random_segments) ==
    /\ key = <<>>
    /\ key' = GenerateKeyFrom(product_prefix, hmac_key, version, random_segments)
    /\ kprefix' = product_prefix
    /\ ksecret' = hmac_key
    /\ kversion' = version
    /\ ktampered' = FALSE
    /\ UNCHANGED <<auditVars, callVars, leaseVars, clientVars, cfgVars, actVars>>

\* one character of a non-prefix segment is replaced by another alphabet symbol
TamperKeyChar(n, sym) ==
    /\ key # <<>>
    /\ ~ktampered
    /\ n \in (PREFIX_LEN + 2)..Len(key)
    /\ key[n] # Dash
    /\ key[n] # Lit(sym)
    /\ key' = [key EXCEPT ![n] = Lit(sym)]
    /\ ktampered' = TRUE
    /\ UNCHANGED <<kprefix, ksecret, kversion>>
    /\ UNCHANGED <<auditVars, callVars, leaseVars, clientVars, cfgVars, actVars>>

KeyLen == PREFIX_LEN + (RANDOM_SEGMENTS + HMAC_SEGMENTS) * (SEGMENT_LEN + 1)

NextKey ==
    \/ \E p \in PrefixInputs, k \in SecretInputs, v \in VersionInputs,
          segs \in [1..RANDOM_SEGMENTS -> RandomSegmentValues] :
           GenerateKey(p, k, v, segs)
    \/ \E n \in 1..KeyLen, sym \in TamperSymbols : TamperKeyChar(n, sym)

KeySpec == Init /\ [][NextKey]_vars

(***************************************************************************)
(* Key codec: properties                                                   *)
(***************************************************************************)
\* a product code: letters only
IsLetter(x) ==
    \E n \in 1..Len(LowerLetters) : x.ch = LowerLetters[n] \/ x.ch = BASE32_ALPHABET[n]

ValidPrefix(p) == \A n \in 1..Len(p) : IsLetter(p[n])

\* C9: round trip: for every valid (prefix, secret, version),
\* verify_hmac(generate_key(prefix, secret, version), secret) is true.
C9_RoundTrip ==
    (key # <<>> /\ ~ktampered /\ ValidPrefix(kprefix)) => VerifyHmac(key, ksecret)

C9_Witness ==
    /\ key # <<>>
    /\ ~ktampered
    /\ kprefix = Str(<<"a", "b">>)
    /\ kversion = 33
    /\ SubSeq(key, 1, 5) = Str(<<"A", "B", "X", "-", "B">>)
    /\ VerifyHmac(key, ksecret)

\* C10: replacing any single character of any of the 7 non-prefix segments of
\* a generated key by a different alphabet symbol makes verify_hmac with the
\* signing secret return false.
C10_TamperDetected == ktampered => ~VerifyHmac(key, ksecret)

C10_Witness ==
    /\ ktampered
    /\ ValidPrefix(kprefix)
    /\ key[Len(key)] = Lit("A")
    /\ key[PREFIX_LEN + 2].mac = <<>>
    /\ ~VerifyHmac(key, ksecret)

(***************************************************************************)
(* Key verification against a keyring (keygen/generator.py)                *)
(***************************************************************************)
\* a character outside ASCII (U+00E9, e with acute accent)
NonAscii == Lit("U+00E9")

Newline == Lit("\n")

IsAscii(s) == \A n \in 1..Len(s) : s[n] # NonAscii

\* _decode_version: the index of char in the alphabet, 0 when it is not in it
\* (a digest character never stands at the decoded position)
DecodeVersion(char) ==
    IF \E n \in 1..Len(BASE32_ALPHABET) : char.ch = BASE32_ALPHABET[n]
    THEN (CHOOSE n \in 1..Len(BASE32_ALPHABET) : char.ch = BASE32_ALPHABET[n]) - 1
    ELSE 0

\* extract_version
ExtractVersion(k) ==
    LET parts == Split(k, Dash) IN
    IF Len(parts) < 2 THEN 0
    ELSE IF Len(parts[2]) < 1 THEN 0
    ELSE DecodeVersion(parts[2][1])

\* the outcome of a call: the exception raised ("" for none) and the value returned
Returned(v) == [raised |-> "", value |-> v, tried |-> <<>>]

Raised(e) == [raised |-> e, value |-> FALSE, tried |-> <<>>]

\* verify_hmac on any argument: key.split raises on a value that is no str,
\* hmac.compare_digest raises on a str with non-ASCII characters
VerifyHmacCall(x, hmac_key) ==
    IF x.type # "str" THEN Raised("AttributeError")
    ELSE LET parts == Split(x.val, Dash) IN
         IF Len(parts) # 1 + RANDOM_SEGMENTS + HMAC_SEGMENTS THEN Returned(FALSE)
         ELSE IF ~IsAscii(Concat(SubSeq(parts, 2 + RANDOM_SEGMENTS, Len(parts))))
         THEN Raised("TypeError")
         ELSE Returned(VerifyHmac(x.val, hmac_key))

RECURSIVE Ascending(_)
\* the elements of a set of versions, in increasing order
Ascending(S) ==
    IF S = {} THEN <<>>
    ELSE LET m == CHOOSE m \in S : \A n \in S : m <= n
         IN <<m>> \o Ascending(S \ {m})

RECURSIVE TryEach(_, _, _)
\* the loop of verify_hmac_multi: return True at the first secret that verifies
TryEach(x, hmac_keys, order) ==
    IF order = <<>> THEN Returned(FALSE)
    ELSE LET o == VerifyHmacCall(x, hmac_keys[Head(order)]) IN
         IF o.raised # "" \/ o.value THEN [o EXCEPT !.tried = <<Head(order)>>]
         ELSE LET rest == TryEach(x, hmac_keys, Tail(order))
              IN [rest EXCEPT !.tried = <<Head(order)>> \o rest.tried]

\* mutant of VerifyHmacMulti: only the secret of the embedded version is tried
VerifyHmacMultiEmbeddedOnly(x, hmac_keys) ==
    IF x.type # "str" THEN Raised("AttributeError")
    ELSE LET version == ExtractVersion(x.val) IN
         IF version \in DOMAIN hmac_keys
         THEN TryEach(x, hmac_keys, <<version>>)
         ELSE Returned(FALSE)

\* verify_hmac_multi: the secret of the embedded version first, then every
\* other secret of the keyring (dict order, taken as increasing version)
VerifyHmacMulti(x, hmac_keys) ==
    IF x.type # "str" THEN Raised("AttributeError")
    ELSE LET version == ExtractVersion(x.val)
             first == IF version \in DOMAIN hmac_keys THEN <<version>> ELSE <<>>
         IN TryEach(x, hmac_keys, first \o Ascending(DOMAIN hmac_keys \ {version}))

(***************************************************************************)
(* Offline key validation (keygen/validator.py)                            *)
(***************************************************************************)
EXPECTED_PARTS == 1 + RANDOM_SEGMENTS + HMAC_SEGMENTS

\* a character of the class [A-Z2-7]; every digest character is one
InAlphabet(x) ==
    IF x.mac # <<>> THEN TRUE
    ELSE \E n \in 1..Len(BASE32_ALPHABET) : x.ch = BASE32_ALPHABET[n]

\* a character of the class [A-Z]
InUpperAZ(x) ==
    /\ x.mac = <<>>
    /\ \E n \in 1..Len(LowerLetters) : x.ch = BASE32_ALPHABET[n]

\* x is a character of the class "A-Z" or "A-Z2-7"
InClass(x, class) == IF class = "A-Z" THEN InUpperAZ(x) ELSE InAlphabet(x)

\* re.compile("^[class]{n}$").match(s): "$" also matches before a final newline
ReMatch(s, class, n) ==
    /\ Len(s) \in {n, n + 1}
    /\ \A i \in 1..n : InClass(s[i], class)
    /\ Len(s) = n + 1 => s[n + 1] = Newline

BASE32_PATTERN(s) == ReMatch(s, "A-Z2-7", SEGMENT_LEN)

PREFIX_PATTERN(s) == ReMatch(s, "A-Z", PREFIX_LEN)

ValidationResult(valid, code, product_prefix) ==
    [raised |-> "", valid |-> valid, code |-> code, product_prefix |-> product_prefix,
     calls |-> <<>>]

\* validate_format
ValidateFormat(x) ==
    IF ~Truthy(x) \/ x.type # "str" THEN ValidationResult(FALSE, "INVALID_FORMAT", <<>>)
    ELSE LET parts == Split(x.val, Dash) IN
         IF Len(parts) # EXPECTED_PARTS
         THEN ValidationResult(FALSE, "INVALID_FORMAT", <<>>)
         ELSE IF ~PREFIX_PATTERN(parts[1])
         THEN ValidationResult(FALSE, "INVALID_PREFIX", <<>>)
         ELSE IF \E i \in 2..Len(parts) : ~BASE32_PATTERN(parts[i])
         THEN ValidationResult(FALSE, "INVALID_SEGMENT", <<>>)
         ELSE ValidationResult(TRUE, "FORMAT_OK", parts[1])

\* the part of validate_key and validate_key_multi after the signature check:
\* sig is the outcome of verify_hmac / verify_hmac_multi
AfterSignature(fmt_result, sig) ==
    IF sig.raised # ""
    THEN [ValidationResult(FALSE, "", <<>>) EXCEPT !.raised = sig.raised]
    ELSE IF ~sig.value
    THEN ValidationResult(FALSE, "INVALID_HMAC", fmt_result.product_prefix)
    ELSE ValidationResult(TRUE, "VALID", fmt_result.product_prefix)

\* mutant of ValidateKey: the signature is checked whatever the format
ValidateKeySignatureFirst(x, hmac_key) ==
    [AfterSignature(ValidateFormat(x), VerifyHmacCall(x, hmac_key))
        EXCEPT !.calls = <<"verify_hmac", "validate_format">>]

\* validate_key, with the functions it called
ValidateKey(x, hmac_key) ==
    LET fmt_result == ValidateFormat(x) IN
    IF ~fmt_result.valid THEN [fmt_result EXCEPT !.calls = <<"validate_format">>]
    ELSE [AfterSignature(fmt_result, VerifyHmacCall(x, hmac_key))
             EXCEPT !.calls = <<"validate_format", "verify_hmac">>]

\* mutant of ValidateKeyMulti: only the current secret of the keyring is tried
ValidateKeyMultiCurrentOnly(x, hmac_keys) ==
    ValidateKey(x, CurrentHmacKey(hmac_keys))

\* validate_key_multi, with the functions it called
ValidateKeyMulti(x, hmac_keys) ==
    LET fmt_result == ValidateFormat(x) IN
    IF ~fmt_result.valid THEN [fmt_result EXCEPT !.calls = <<"validate_format">>]
    ELSE [AfterSignature(fmt_result, VerifyHmacMulti(x, hmac_keys))
             EXCEPT !.calls = <<"validate_format", "verify_hmac_multi">>]

(***************************************************************************)
(* Calls of the validation functions on well-formed and malformed keys     *)
(***************************************************************************)
GoodSegment == Str(<<"A", "A", "A", "A", "A">>)

\* segments of the malformed keys of tests/unit/test_validator.py, and a
\* segment ending in a newline or holding a non-ASCII character
SegmentInputs ==
    { Str(<<"A", "A", "A">>), Str(<<"A", "A", "A", "A", "A", "A">>),
      Str(<<"0", "0", "0", "0", "0">>), GoodSegment \o <<Newline>>,
      Str(<<"A", "A", "A", "A">>) \o <<NonAscii>> }

PrefixSegmentInputs ==
    { Str(<<"Z", "U", "L">>), Str(<<"z", "u", "l">>), Str(<<"1", "2", "3">>),
      Str(<<"Z", "U">>), Str(<<"Z", "U", "L">>) \o <<Newline>> }

\* numbers of dash-separated parts: too few, right, too many
PartCounts == {1, 3, EXPECTED_PARTS, EXPECTED_PARTS + 1}

\* keys typed by hand: a prefix and segments of which at most one is malformed
HandWrittenKeys ==
    { Join(<<p>> \o [i \in 1..(n - 1) |-> IF i = pos THEN seg ELSE GoodSegment], Dash) :
        p \in PrefixSegmentInputs, n \in PartCounts, pos \in 0..EXPECTED_PARTS,
        seg \in SegmentInputs }

\* versions stamped on generated keys; 16 is the index of "Q", the first
\* character a key from before version stamping may carry
StampInputs == VersionInputs \cup {16}

GeneratedKeys ==
    { GenerateKeyFrom(Str(<<"Z", "U", "L">>), k, v,
                      [i \in 1..RANDOM_SEGMENTS |-> Str(<<"Q", "7", "B", "2", "Z">>)]) :
        k \in SecretInputs, v \in StampInputs }

\* a generated key as presented: intact, with a newline appended, or with its
\* last character replaced
PresentedKeys ==
    UNION { { k, k \o <<Newline>>, [k EXCEPT ![Len(k)] = NonAscii],
              [k EXCEPT ![Len(k)] = Lit("A")] } : k \in GeneratedKeys }

KeyInputs ==
    {PyNone, PyInt, PyStr(<<>>)}
        \cup { PyStr(k) : k \in HandWrittenKeys \cup PresentedKeys }

\* keyrings passed to the multi-key functions
RingInputs ==
    { <<>>,
      InitialKeyring,
      (0 :> DefaultHmacKey) @@ (1 :> "test-hmac-key-for-unit-tests"),
      (0 :> "wrong-a") @@ (1 :> "wrong-b"),
      (1 :> "test-hmac-key-for-unit-tests") @@ (33 :> DefaultHmacKey) }

Called(op, hmac_key, hmac_keys, r) ==
    [NoResult EXCEPT !.op = op, !.hmac_key = hmac_key, !.hmac_keys = hmac_keys,
                     !.raised = r.raised, !.valid = r.valid, !.code = r.code,
                     !.product_prefix = r.product_prefix, !.calls = r.calls]

CallValidateFormat ==
    /\ result.op = ""
    /\ result' = Called("validate_format", "", <<>>, ValidateFormat(arg))
    /\ UNCHANGED <<arg, auditVars, keyVars, leaseVars, clientVars, cfgVars, actVars>>

CallValidateKey(hmac_key) ==
    /\ result.op = ""
    /\ result' = Called("validate_key", hmac_key, <<>>, ValidateKey(arg, hmac_key))
    /\ UNCHANGED <<arg, auditVars, keyVars, leaseVars, clientVars, cfgVars, actVars>>

CallValidateKeyMulti(hmac_keys) ==
    /\ result.op = ""
    /\ result' = Called("validate_key_multi", "", hmac_keys,
                        ValidateKeyMulti(arg, hmac_keys))
    /\ UNCHANGED <<arg, auditVars, keyVars, leaseVars, clientVars, cfgVars, actVars>>

\* a call of a function that returns a bool: the bool is field valid
CalledBool(op, hmac_key, hmac_keys, o) ==
    [NoResult EXCEPT !.op = op, !.hmac_key = hmac_key, !.hmac_keys = hmac_keys,
                     !.raised = o.raised, !.valid = o.value, !.tried = o.tried]

CallVerifyHmac(hmac_key) ==
    /\ result.op = ""
    /\ result' = CalledBool("verify_hmac", hmac_key, <<>>, VerifyHmacCall(arg, hmac_key))
    /\ UNCHANGED <<arg, auditVars, keyVars, leaseVars, clientVars, cfgVars, actVars>>

CallVerifyHmacMulti(hmac_keys) ==
    /\ result.op = ""
    /\ result' = CalledBool("verify_hmac_multi", "", hmac_keys,
                            VerifyHmacMulti(arg, hmac_keys))
    /\ UNCHANGED <<arg, auditVars, keyVars, leaseVars, clientVars, cfgVars, actVars>>

InitCodec ==
    /\ events = <<>>
    /\ keyring = InitialKeyring
    /\ pending = [r \in Requests |-> <<>>]
    /\ tampered = FALSE
    /\ key = <<>>
    /\ kprefix = <<>>
    /\ ksecret = DefaultHmacKey
    /\ kversion = 0
    /\ ktampered = FALSE
    /\ arg \in KeyInputs
    /\ result = NoResult
    /\ clock = 0
    /\ lease = NoLease
    /\ issue = NoIssue
    /\ ltampered = ""
    /\ lresult = NoLeaseResult
    /\ client = NoClient
    /\ lease_file = NoLease
    /\ cached_lease = NoneLease
    /\ in_request = FALSE
    /\ attempt = 0
    /\ last_error = ""
    /\ outcomes = <<>>
    /\ reply = NoData
    /\ cresult = NoClientResult
    /\ settings = NoSettings
    /\ cfgresult = NoCfgResult
    /\ license_row = NoLicenseRow
    /\ machines = {}
    /\ sessions = NoSessions
    /\ aresult = NoActResult

NextCodec ==
    \/ CallValidateFormat
    \/ \E k \in SecretInputs : CallValidateKey(k)
    \/ \E ring \in RingInputs : CallValidateKeyMulti(ring)
    \/ \E k \in SecretInputs : CallVerifyHmac(k)
    \/ \E ring \in RingInputs : CallVerifyHmacMulti(ring)

CodecSpec == InitCodec /\ [][NextCodec]_vars

(***************************************************************************)
(* Key validation: properties                                              *)
(***************************************************************************)
\* verify_hmac(arg, secret) returns True
VerifiesWith(secret) ==
    LET o == VerifyHmacCall(arg, secret) IN o.raised = "" /\ o.value

\* C11: verify_hmac_multi(key, keyring) returns true exactly when
\* verify_hmac(key, secret) is true for at least one secret of the keyring,
\* whatever version the key's first random character decodes to (known,
\* unknown or a legacy random character); the embedded version only decides
\* which secret is tried first.
C11_MultiIsAnySecret ==
    result.op = "verify_hmac_multi" =>
        /\ (result.raised = "" /\ result.valid)
               <=> \E v \in DOMAIN result.hmac_keys : VerifiesWith(result.hmac_keys[v])
        /\ (arg.type = "str" /\ ExtractVersion(arg.val) \in DOMAIN result.hmac_keys)
               => result.tried[1] = ExtractVersion(arg.val)

\* a key stamped with version 1 and signed with the secret of version 0 is
\* accepted after the secret of version 1 failed
C11_Witness ==
    /\ result.op = "verify_hmac_multi"
    /\ arg.type = "str"
    /\ ExtractVersion(arg.val) = 1
    /\ DOMAIN result.hmac_keys = {0, 1}
    /\ result.tried = <<1, 0>>
    /\ result.valid

(***************************************************************************)
(* Minting and validating keys across rotations (licensing/service.py)     *)
(***************************************************************************)
\* product codes the API accepts (^[A-Z]{1,3}$), and one given in lower case
ProductCodes == { Str(<<"Z", "U", "L">>), Str(<<"A", "B">>), Str(<<"z", "u", "l">>) }

\* keyrings the service may be configured with (VINZY_HMAC_KEYS)
ConfiguredKeyrings ==
    { InitialKeyring,
      (31 :> "hmac-key-v31"),
      (1 :> "hmac-key-v1") @@ (33 :> "hmac-key-v33") }

\* create_license: the key is signed with the current secret and stamped
\* with the current version
CreateLicense(product_code, random_segments) ==
    /\ key = <<>>
    /\ key' = GenerateKeyFrom(product_code, CurrentHmacKey(keyring),
                              CurrentHmacVersion(keyring), random_segments)
    /\ kprefix' = product_code
    /\ ksecret' = CurrentHmacKey(keyring)
    /\ kversion' = CurrentHmacVersion(keyring)
    /\ UNCHANGED <<ktampered, auditVars, callVars, leaseVars, clientVars, cfgVars,
                   actVars>>

\* validate_license, step 1: the offline check against the whole keyring
ValidateLicense ==
    /\ key # <<>>
    /\ arg' = PyStr(key)
    /\ result' = Called("validate_key_multi", "", keyring,
                        ValidateKeyMulti(PyStr(key), keyring))
    /\ UNCHANGED <<auditVars, keyVars, leaseVars, clientVars, cfgVars, actVars>>

InitMint ==
    /\ events = <<>>
    /\ keyring \in ConfiguredKeyrings
    /\ pending = [r \in Requests |-> <<>>]
    /\ tampered = FALSE
    /\ key = <<>>
    /\ kprefix = <<>>
    /\ ksecret = DefaultHmacKey
    /\ kversion = 0
    /\ ktampered = FALSE
    /\ arg = PyStr(<<>>)
    /\ result = NoResult
    /\ clock = 0
    /\ lease = NoLease
    /\ issue = NoIssue
    /\ ltampered = ""
    /\ lresult = NoLeaseResult
    /\ client = NoClient
    /\ lease_file = NoLease
    /\ cached_lease = NoneLease
    /\ in_request = FALSE
    /\ attempt = 0
    /\ last_error = ""
    /\ outcomes = <<>>
    /\ reply = NoData
    /\ cresult = NoClientResult
    /\ settings = NoSettings
    /\ cfgresult = NoCfgResult
    /\ license_row = NoLicenseRow
    /\ machines = {}
    /\ sessions = NoSessions
    /\ aresult = NoActResult

NextMint ==
    \/ \E p \in ProductCodes, segs \in [1..RANDOM_SEGMENTS -> RandomSegmentValues] :
           CreateLicense(p, segs)
    \/ RotateKey
    \/ ValidateLicense

MintSpec == InitMint /\ [][NextMint]_vars

\* C12: a key minted by the service under a keyring K (signed with K's
\* current secret, stamped with K's current version modulo 32) is accepted
\* by validate_key_multi with code VALID under every later keyring that
\* still contains all entries of K, for any sequence of rotations.
C12_MintedKeyStaysValid ==
    /\ key # <<>> =>
          /\ ExtractVersion(key) = kversion % 32
          /\ ValidateKeyMulti(PyStr(key), keyring).code = "VALID"
    /\ result.op = "validate_key_multi" =>
          (result.raised = "" /\ result.valid /\ result.code = "VALID")

\* a key minted under version 31 is validated after the rotation to version 32
C12_Witness ==
    /\ key # <<>>
    /\ kversion = 31
    /\ CurrentHmacVersion(keyring) = 32
    /\ result.op = "validate_key_multi"
    /\ DOMAIN result.hmac_keys = {31, 32}
    /\ result.code = "VALID"

(***************************************************************************)
(* Key format: properties                                                  *)
(***************************************************************************)
\* s is exactly n characters of the class
ExactlyOf(s, class, n) == Len(s) = n /\ \A i \in 1..Len(s) : InClass(s[i], class)

\* the code the key grammar gives a key: the first failing stage, or FORMAT_OK
GrammarCode(x) ==
    LET parts == Split(x.val, Dash) IN
    IF x.type # "str" \/ Len(parts) # 8 THEN "INVALID_FORMAT"
    ELSE IF ~ExactlyOf(parts[1], "A-Z", 3) THEN "INVALID_PREFIX"
    ELSE IF \E i \in 2..8 : ~ExactlyOf(parts[i], "A-Z2-7", 5) THEN "INVALID_SEGMENT"
    ELSE "FORMAT_OK"

\* C14: validate_format(key) returns valid=true with code FORMAT_OK and
\* product_prefix = first segment exactly when the key has exactly 8
\* dash-separated segments, the first exactly 3 letters A-Z and each of the
\* other 7 exactly 5 symbols of the alphabet; otherwise valid=false with the
\* code of the first failing stage (INVALID_FORMAT, INVALID_PREFIX,
\* INVALID_SEGMENT).
C14_FormatIsGrammar ==
    result.op = "validate_format" =>
        /\ result.code = GrammarCode(arg)
        /\ result.valid <=> GrammarCode(arg) = "FORMAT_OK"
        /\ result.valid => result.product_prefix = Split(arg.val, Dash)[1]

\* C15: every key returned by generate_key, for every product_prefix and
\* version, conforms to the key grammar: validate_format accepts it with
\* FORMAT_OK and reports the prefix uppercased, truncated / padded with X to
\* 3 characters.
C15_GeneratedKeyInGrammar ==
    (key # <<>> /\ ~ktampered) =>
        ValidateFormat(PyStr(key)) =
            ValidationResult(TRUE, "FORMAT_OK",
                             Ljust(Take(Upper(kprefix), PREFIX_LEN), PREFIX_LEN, Lit("X")))

FormatCodes == {"INVALID_FORMAT", "INVALID_PREFIX", "INVALID_SEGMENT"}

\* the signature of arg matches a secret supplied to the call recorded in result
SignatureMatches ==
    IF result.op = "validate_key" THEN VerifiesWith(result.hmac_key)
    ELSE \E v \in DOMAIN result.hmac_keys : VerifiesWith(result.hmac_keys[v])

\* C16: validate_key and validate_key_multi run format validation first and
\* stop at its failure: the code is INVALID_FORMAT, INVALID_PREFIX or
\* INVALID_SEGMENT exactly when validate_format rejects the key (the
\* signature is then never checked), INVALID_HMAC exactly when the format is
\* valid and the signature matches no supplied secret, VALID exactly when
\* both pass; valid=true only with code VALID.
C16_FormatThenSignature ==
    result.op \in {"validate_key", "validate_key_multi"} =>
        LET fmt == ValidateFormat(arg) IN
        /\ result.raised = ""
        /\ Head(result.calls) = "validate_format"
        /\ result.code \in FormatCodes <=> ~fmt.valid
        /\ ~fmt.valid => (result.code = fmt.code /\ Len(result.calls) = 1)
        /\ result.code = "INVALID_HMAC" <=> (fmt.valid /\ ~SignatureMatches)
        /\ result.code = "VALID" <=> (fmt.valid /\ SignatureMatches)
        /\ result.valid <=> result.code = "VALID"

\* a key whose signature holds a non-ASCII character (verify_hmac would raise
\* on it) is rejected by the format check alone
C16_Witness ==
    /\ result.op = "validate_key"
    /\ result.code = "INVALID_SEGMENT"
    /\ result.calls = <<"validate_format">>
    /\ VerifyHmacCall(arg, result.hmac_key).raised = "TypeError"

\* C17: format and signature checks never throw: for every input key (empty,
\* non-string, wrong segment count, characters outside the alphabet, also
\* non-ASCII ones) validate_format, validate_key, validate_key_multi,
\* verify_hmac and verify_hmac_multi return a tagged result or false.
C17_NeverThrows == result.raised = ""

(***************************************************************************)
(* Signed leases (keygen/lease.py)                                         *)
(*                                                                         *)
(* Time is counted in ticks; create_lease drops the part of now below one  *)
(* second.  A timestamp string is a record: the ISO text of a whole second *)
(* with its UTC offset, or some other text.                                *)
(***************************************************************************)
MaxClock == 4

\* ticks per second: datetime.now() is finer than the second create_lease keeps
TicksPerSecond == 2

\* datetime.isoformat() of a UTC datetime with no microseconds
IsoFormat(seconds) == [kind |-> "iso", seconds |-> seconds, tz |-> "+00:00", text |-> ""]

\* a string that is no ISO timestamp
Text(t) == [kind |-> "text", seconds |-> 0, tz |-> "", text |-> t]

\* datetime.fromisoformat(s), a missing offset read as UTC: the instant in ticks
Instant(s) == s.seconds * TicksPerSecond

\* f"{x}" of a str or of None
Format(x) == IF x.type = "str" THEN x.val ELSE Text("None")

\* keys of a LeasePayload dict in sorted order
SortedPayloadKeys ==
    <<"entitlements", "expires_at", "features", "issued_at", "license_id",
      "product_code", "status", "tier">>

\* whether json.dumps accepts x (a set is not JSON serializable)
JsonSerializable(x) == x.type \in {"dict", "NoneType", "str"}

\* json.dumps(x, sort_keys=True, separators=(",", ":"))
JsonDumps(x) ==
    IF x.type = "dict"
    THEN LET InDict(k) == k \in DOMAIN x.val
             keys == SelectSeq(SortedPayloadKeys, InDict)
         IN <<"object", [n \in 1..Len(keys) |-> <<keys[n], x.val[keys[n]]>>]>>
    ELSE IF x.type = "NoneType" THEN <<"null">>
    ELSE <<"string", x.val>>

PyDict(d) == [type |-> "dict", val |-> d]

\* the signature over canonical payload, "|" and the expiry text
LeaseSignature(payload, lease_expires_at, hmac_key) ==
    PyStr(HmacSha256Hex(hmac_key, <<JsonDumps(payload), Format(lease_expires_at)>>))

\* the dict create_lease returns when called at time now
CreateLeaseAt(payload, hmac_key, ttl_seconds, now) ==
    LET lease_expires == (now \div TicksPerSecond) + ttl_seconds
        payload_dict == PyDict(payload)
        expires_str == PyStr(IsoFormat(lease_expires))
    IN [type |-> "dict",
        items |-> [payload |-> payload_dict,
                   signature |-> LeaseSignature(payload_dict, expires_str, hmac_key),
                   lease_expires_at |-> expires_str]]

\* a str that hmac.compare_digest accepts
IsAsciiStr(x) == x.type = "str" /\ x.val[1] # "non-ascii"

\* mutant of VerifyLeaseAt: a lease is still accepted at its expiry instant
VerifyLeaseAtInclusive(l, hmac_key, now) ==
    IF l.type # "dict" THEN Returned(FALSE)
    ELSE IF ~({"payload", "signature", "lease_expires_at"} \subseteq DOMAIN l.items)
    THEN Returned(FALSE)
    ELSE LET payload_dict == l.items.payload
             signature == l.items.signature
             lease_expires_str == l.items.lease_expires_at
         IN IF ~JsonSerializable(payload_dict) THEN Raised("TypeError")
            ELSE IF ~IsAsciiStr(signature) THEN Raised("TypeError")
            ELSE IF signature #
                      LeaseSignature(payload_dict, lease_expires_str, hmac_key)
            THEN Returned(FALSE)
            ELSE IF lease_expires_str.type # "str" THEN Returned(FALSE)
            ELSE IF lease_expires_str.val.kind # "iso" THEN Returned(FALSE)
            ELSE Returned(now <= Instant(lease_expires_str.val))

\* verify_lease called at time now: a value that is no dict or lacks a key
\* gives False (KeyError, TypeError are caught); json.dumps and
\* hmac.compare_digest stand outside the try blocks
VerifyLeaseAt(l, hmac_key, now) ==
    IF l.type # "dict" THEN Returned(FALSE)
    ELSE IF ~({"payload", "signature", "lease_expires_at"} \subseteq DOMAIN l.items)
    THEN Returned(FALSE)
    ELSE LET payload_dict == l.items.payload
             signature == l.items.signature
             lease_expires_str == l.items.lease_expires_at
         IN IF ~JsonSerializable(payload_dict) THEN Raised("TypeError")
            ELSE IF ~IsAsciiStr(signature) THEN Raised("TypeError")
            ELSE IF signature #
                      LeaseSignature(payload_dict, lease_expires_str, hmac_key)
            THEN Returned(FALSE)
            ELSE IF lease_expires_str.type # "str" THEN Returned(FALSE)
            ELSE IF lease_expires_str.val.kind # "iso" THEN Returned(FALSE)
            ELSE Returned(now < Instant(lease_expires_str.val))

\* the payload of tests/unit/test_lease.py
PayloadInput ==
    [license_id |-> "lic-123", status |-> "active", features |-> <<"api", "export">>,
     entitlements |-> <<[feature |-> "api", enabled |-> TRUE]>>, tier |-> "pro",
     product_code |-> "ZUL", issued_at |-> IsoFormat(0),
     expires_at |-> IsoFormat(86400)]

\* the value an edit gives a payload field (test_tampered_payload_rejected
\* sets status to "revoked")
EditedPayloadValue(f) ==
    CASE f = "license_id" -> "lic-999"
      [] f = "status" -> "revoked"
      [] f = "features" -> <<"api", "export", "admin">>
      [] f = "entitlements" -> <<>>
      [] f = "tier" -> "enterprise"
      [] f = "product_code" -> "NXS"
      [] f = "issued_at" -> IsoFormat(1)
      [] f = "expires_at" -> IsoFormat(2 * 86400)

\* ttl_seconds arguments: expired at once, one second, the default
TtlInputs == {0, 1, 86400}

\* signatures put in place of the real one: 64 hex digits, the signature an
\* attacker computes with an own secret, a str with non-ASCII characters
ForgeryKinds == {"hex", "resigned", "non-ascii"}

ForgedSignature(l, kind) ==
    CASE kind = "hex" -> PyStr(<<"hex", "aaaaaaaaaaaaaaaa">>)
      [] kind = "resigned" ->
             LeaseSignature(l.items.payload, l.items.lease_expires_at, AttackerKey)
      [] kind = "non-ascii" -> PyStr(<<"non-ascii", "U+00E9">>)

\* create_lease
CreateLease(payload, hmac_key, ttl_seconds) ==
    /\ lease = NoLease
    /\ lease' = CreateLeaseAt(payload, hmac_key, ttl_seconds, clock)
    /\ issue' = [payload |-> payload, hmac_key |-> hmac_key,
                 ttl_seconds |-> ttl_seconds, at |-> clock]
    /\ UNCHANGED <<clock, ltampered, lresult, auditVars, keyVars, callVars, clientVars,
                   cfgVars, actVars>>

\* time passes
Tick ==
    /\ clock < MaxClock
    /\ clock' = clock + 1
    /\ UNCHANGED <<lease, issue, ltampered, lresult, auditVars, keyVars, callVars, clientVars,
                   cfgVars, actVars>>

\* lease["payload"][f] = another value
EditPayloadField(f) ==
    /\ issue # NoIssue
    /\ ltampered = ""
    /\ lease' = [lease EXCEPT !.items.payload.val[f] = EditedPayloadValue(f)]
    /\ ltampered' = "payload"
    /\ lresult' = NoLeaseResult
    /\ UNCHANGED <<clock, issue, auditVars, keyVars, callVars, clientVars, cfgVars,
                   actVars>>

\* lease["lease_expires_at"] = a later time
EditExpiry ==
    /\ issue # NoIssue
    /\ ltampered = ""
    /\ lease' = [lease EXCEPT !.items.lease_expires_at =
                    PyStr(IsoFormat(@.val.seconds + 86400))]
    /\ ltampered' = "lease_expires_at"
    /\ lresult' = NoLeaseResult
    /\ UNCHANGED <<clock, issue, auditVars, keyVars, callVars, clientVars, cfgVars,
                   actVars>>

\* lease["signature"] = another value
EditSignature(kind) ==
    /\ issue # NoIssue
    /\ ltampered = ""
    /\ lease' = [lease EXCEPT !.items.signature = ForgedSignature(lease, kind)]
    /\ ltampered' = "signature"
    /\ lresult' = NoLeaseResult
    /\ UNCHANGED <<clock, issue, auditVars, keyVars, callVars, clientVars, cfgVars,
                   actVars>>

\* verify_lease
VerifyLease(hmac_key) ==
    /\ lease # NoLease
    /\ LET o == VerifyLeaseAt(lease, hmac_key, clock)
       IN lresult' = [called |-> TRUE, hmac_key |-> hmac_key, at |-> clock,
                      raised |-> o.raised, value |-> o.value]
    /\ UNCHANGED <<clock, lease, issue, ltampered, auditVars, keyVars, callVars, clientVars,
                   cfgVars, actVars>>

\* a lease that verifies, from which the malformed ones are made
SampleLease == CreateLeaseAt(PayloadInput, DefaultHmacKey, 86400, 0)

Without(l, k) ==
    [l EXCEPT !.items = [x \in DOMAIN l.items \ {k} |-> l.items[x]]]

\* a lease with the given payload and expiry, signed with the service's secret
SignedLease(payload, lease_expires_at) ==
    [type |-> "dict",
     items |-> [payload |-> payload,
                signature |-> LeaseSignature(payload, lease_expires_at, DefaultHmacKey),
                lease_expires_at |-> lease_expires_at]]

\* lease values that are no mapping, lack a key, or hold a field of the wrong
\* type or an expiry that does not parse
MalformedLeases ==
    { [type |-> "NoneType", items |-> <<>>],
      [type |-> "list", items |-> <<>>],
      [type |-> "str", items |-> <<>>],
      [type |-> "dict", items |-> <<>>],
      Without(SampleLease, "payload"),
      Without(SampleLease, "signature"),
      Without(SampleLease, "lease_expires_at"),
      [SampleLease EXCEPT !.items.signature = PyNone],
      [SampleLease EXCEPT !.items.payload = PyNone],
      [SampleLease EXCEPT !.items.payload = [type |-> "set", val |-> <<>>]],
      [SampleLease EXCEPT !.items.lease_expires_at = PyNone],
      [SampleLease EXCEPT !.items.lease_expires_at = PyStr(Text("not-a-date"))],
      SignedLease(SampleLease.items.payload, PyStr(Text("not-a-date"))),
      SignedLease(SampleLease.items.payload, PyNone),
      SignedLease(PyNone, SampleLease.items.lease_expires_at) }

\* a lease value that create_lease did not build reaches verify_lease
PresentLease(l) ==
    /\ lease = NoLease
    /\ lease' = l
    /\ ltampered' = "malformed"
    /\ UNCHANGED <<clock, issue, lresult, auditVars, keyVars, callVars, clientVars,
                   cfgVars, actVars>>

NextLease ==
    \/ \E k \in SecretInputs, ttl \in TtlInputs : CreateLease(PayloadInput, k, ttl)
    \/ Tick
    \/ \E f \in DOMAIN PayloadInput : EditPayloadField(f)
    \/ EditExpiry
    \/ \E kind \in ForgeryKinds : EditSignature(kind)
    \/ \E l \in MalformedLeases : PresentLease(l)
    \/ \E k \in SecretInputs : VerifyLease(k)

LeaseSpec == Init /\ [][NextLease]_vars

(***************************************************************************)
(* Leases: properties                                                      *)
(***************************************************************************)
\* a verify_lease call with the signing secret on the lease as created
VerifiedUnmodified ==
    /\ issue # NoIssue
    /\ ltampered = ""
    /\ lresult.called
    /\ lresult.hmac_key = issue.hmac_key

\* C18: a lease returned by create_lease(payload, secret, ttl) and left
\* unmodified is accepted by verify_lease(lease, secret) at every time
\* strictly before its lease_expires_at and rejected at every time at or
\* after it; with ttl=0 it is rejected after any positive delay, with
\* ttl=86400 it is accepted immediately after creation.
C18_AcceptedUntilExpiry ==
    VerifiedUnmodified =>
        /\ lresult.raised = ""
        /\ lresult.value <=> lresult.at < Instant(lease.items.lease_expires_at.val)
        /\ (issue.ttl_seconds = 0 /\ lresult.at > issue.at) => ~lresult.value
        /\ (issue.ttl_seconds = 86400 /\ lresult.at = issue.at) => lresult.value

\* a lease of one second, created in the middle of a second, is rejected at
\* the very instant it expires
C18_Witness ==
    /\ VerifiedUnmodified
    /\ issue.ttl_seconds = 1
    /\ issue.at = 1
    /\ lresult.at = Instant(lease.items.lease_expires_at.val)
    /\ ~lresult.value

\* C19: after create_lease, changing the value of any field of
\* lease.payload, changing lease_expires_at, changing the signature, or
\* verifying with a secret other than the signing secret makes verify_lease
\* return false, even before the lease expires.
C19_TamperedLeaseRejected ==
    (/\ issue # NoIssue
     /\ lresult.called
     /\ ltampered # "" \/ lresult.hmac_key # issue.hmac_key)
        => (lresult.raised = "" /\ ~lresult.value)

\* C20: malformed leases fail closed rather than throwing: for every lease
\* value that is not a mapping, lacks payload, signature or
\* lease_expires_at, or carries a field of the wrong type or an unparsable
\* expiry, verify_lease returns false and raises no exception.
C20_MalformedFailsClosed ==
    (ltampered = "malformed" /\ lresult.called)
        => (lresult.raised = "" /\ ~lresult.value)

(***************************************************************************)
(* Client SDK (client.py)                                                  *)
(*                                                                         *)
(* The server is remote: what each HTTP attempt meets is an input.  A      *)
(* parsed JSON body is the value json.loads gives; a lease written by      *)
(* json.dumps and read back by json.loads is the same dict of strings,     *)
(* lists and dicts.                                                        *)
(***************************************************************************)
\* largest max_retries argument given to the constructor
MaxRetries == 2

RetryInputs == 0..MaxRetries

\* the error dict _request builds itself
ErrorDict(code) ==
    [returned |-> TRUE, error |-> TRUE, code |-> code, valid |-> FALSE,
     features |-> <<>>, lease |-> NoneLease]

\* a parsed ValidationResponse body
Body(valid, code, features, l) ==
    [returned |-> TRUE, error |-> FALSE, code |-> code, valid |-> valid,
     features |-> features, lease |-> l]

\* what one HTTP attempt can meet
Timeout == [kind |-> "timeout", status_code |-> 0, json |-> FALSE, body |-> NoData]

TransportError ==
    [kind |-> "http_error", status_code |-> 0, json |-> FALSE, body |-> NoData]

Response(status_code, body) ==
    [kind |-> "response", status_code |-> status_code, json |-> TRUE, body |-> body]

NotJson(status_code) ==
    [kind |-> "response", status_code |-> status_code, json |-> FALSE, body |-> NoData]

\* VinzySettings.lease_ttl, set to one second so that leases expire in
\* the time the model covers (its default is 86400)
lease_ttl == 1

\* the lease validate_license puts in its answer at time now
ServerLease(ttl_seconds, now) ==
    CreateLeaseAt(PayloadInput, DefaultHmacKey, ttl_seconds, now)

\* what an attempt made at time now can meet: no answer, an error status, a
\* body that is no JSON, the answers of POST /validate (valid with a lease,
\* invalid without one), and answers a server could also give: valid with no
\* lease, invalid with a lease
AttemptOutcomes(now) ==
    {Timeout, TransportError, Response(500, NoData), Response(429, NoData),
     Response(404, NoData), NotJson(200),
     Response(200, Body(TRUE, "OK", PayloadInput.features,
                        ServerLease(lease_ttl, now))),
     Response(200, Body(FALSE, "NOT_FOUND", <<>>, NoneLease)),
     Response(200, Body(TRUE, "OK", PayloadInput.features, NoneLease)),
     Response(200, Body(FALSE, "EXPIRED", <<>>, ServerLease(lease_ttl, now)))}

\* mutant of RequestStep: every status from 400 on is retried
RequestStepRetries4xx(max_retries, attempt_, outcome) ==
    IF outcome.kind = "response"
    THEN IF outcome.status_code >= 400
         THEN IF attempt_ < max_retries - 1
              THEN [done |-> FALSE, data |-> NoData, last_error |-> "HTTP"]
              ELSE [done |-> TRUE, data |-> ErrorDict("SERVER_ERROR"),
                    last_error |-> "HTTP"]
         ELSE IF ~outcome.json
         THEN [done |-> TRUE, data |-> ErrorDict("JSON_ERROR"), last_error |-> ""]
         ELSE [done |-> TRUE, data |-> outcome.body, last_error |-> ""]
    ELSE [done |-> FALSE, data |-> NoData, last_error |-> outcome.kind]

\* one pass through the body of the for loop of _request
RequestStep(max_retries, attempt_, outcome) ==
    IF outcome.kind = "response"
    THEN IF outcome.status_code >= 500 \/ outcome.status_code = 429
         THEN IF attempt_ < max_retries - 1
              THEN [done |-> FALSE, data |-> NoData, last_error |-> "HTTP"]
              ELSE [done |-> TRUE, data |-> ErrorDict("SERVER_ERROR"),
                    last_error |-> "HTTP"]
         ELSE IF outcome.status_code >= 400
         THEN [done |-> TRUE, data |-> ErrorDict("CLIENT_ERROR"), last_error |-> ""]
         ELSE IF ~outcome.json
         THEN [done |-> TRUE, data |-> ErrorDict("JSON_ERROR"), last_error |-> ""]
         ELSE [done |-> TRUE, data |-> outcome.body, last_error |-> ""]
    ELSE [done |-> FALSE, data |-> NoData, last_error |-> outcome.kind]

\* the return after the for loop
RetriesExhausted == ErrorDict("CONNECTION_ERROR")

RECURSIVE RequestLoop(_, _, _)
\* the for loop of _request from pass attempt_ on, net[n] being what the
\* n-th HTTP attempt meets
RequestLoop(max_retries, attempt_, net) ==
    IF attempt_ >= max_retries
    THEN [data |-> RetriesExhausted, outcomes |-> SubSeq(net, 1, attempt_)]
    ELSE LET step == RequestStep(max_retries, attempt_, net[attempt_ + 1])
         IN IF step.done
            THEN [data |-> step.data, outcomes |-> SubSeq(net, 1, attempt_ + 1)]
            ELSE RequestLoop(max_retries, attempt_ + 1, net)

\* _request
Request(max_retries, net) == RequestLoop(max_retries, 0, net)

\* a ClientValidationResult
ClientValidationResult(valid, code, features, l) ==
    [raised |-> "", valid |-> valid, code |-> code, features |-> features,
     lease |-> l]

ClientRaised(e) ==
    [raised |-> e, valid |-> FALSE, code |-> "", features |-> <<>>,
     lease |-> NoneLease]

\* _validate_from_cache at time now
ValidateFromCache(cached, now) ==
    IF cached.type = "NoneType"
    THEN ClientValidationResult(FALSE, "NO_LEASE", <<>>, NoneLease)
    ELSE IF cached.type # "dict" THEN ClientRaised("AttributeError")
    ELSE LET lease_expires_str ==
                 IF "lease_expires_at" \in DOMAIN cached.items
                 THEN cached.items.lease_expires_at
                 ELSE PyStr(Text(""))
         IN IF lease_expires_str.type # "str"
            THEN ClientValidationResult(FALSE, "LEASE_INVALID", <<>>, NoneLease)
            ELSE IF lease_expires_str.val.kind # "iso"
            THEN ClientValidationResult(FALSE, "LEASE_INVALID", <<>>, NoneLease)
            ELSE IF now >= Instant(lease_expires_str.val)
            THEN ClientValidationResult(FALSE, "LEASE_EXPIRED", <<>>, NoneLease)
            ELSE LET payload == IF "payload" \in DOMAIN cached.items
                                THEN cached.items.payload
                                ELSE PyDict(<<>>)
                 IN IF payload.type # "dict" THEN ClientRaised("AttributeError")
                    ELSE ClientValidationResult(TRUE, "OFFLINE_VALID",
                             IF "features" \in DOMAIN payload.val
                             THEN payload.val.features ELSE <<>>,
                             cached)

\* _load_persisted_lease: the new _cached_lease
LoadPersistedLease(lease_cache_path, file, cached) ==
    IF ~lease_cache_path THEN cached
    ELSE IF file = NoLease THEN cached
    ELSE IF file.type = "not-json" THEN cached
    ELSE file

\* _persist_lease: the new content of the file
PersistLease(lease_cache_path, file, l) ==
    IF ~lease_cache_path THEN file ELSE l

\* whether a lease value counts as true in an if
TruthyLease(l) == l.type = "dict" /\ DOMAIN l.items # {}

\* mutant of CachesLease: any lease in an answer is cached
CachesAnyLease(d) == TruthyLease(d.lease)

\* validate: whether the answer's lease goes to the cache
CachesLease(d) == TruthyLease(d.lease) /\ d.valid

\* the outcome of a call, as kept in cresult
Outcome(op, r, calls) ==
    [called |-> op, at |-> clock, raised |-> r.raised, valid |-> r.valid,
     code |-> r.code, features |-> r.features, lease |-> r.lease, calls |-> calls]

\* LicenseClient(max_retries=..., lease_cache_path=...)
NewClient(max_retries, lease_cache_path) ==
    /\ ~client.constructed
    /\ client' = [constructed |-> TRUE, max_retries |-> max_retries,
                  lease_cache_path |-> lease_cache_path]
    /\ cached_lease' = LoadPersistedLease(lease_cache_path, lease_file, NoneLease)
    /\ UNCHANGED <<lease_file, in_request, attempt, last_error, outcomes, reply,
                   cresult, auditVars, keyVars, callVars, leaseVars, cfgVars,
                   actVars>>

\* validate
Validate(net) ==
    /\ client.constructed
    /\ ~in_request
    /\ LET r == Request(client.max_retries, net)
           lease_ == r.data.lease
           caches == CachesLease(r.data)
       IN /\ outcomes' = r.outcomes
          /\ reply' = r.data
          /\ IF r.data.error /\ r.data.code = "CONNECTION_ERROR"
             THEN /\ cresult' = Outcome("validate",
                                        ValidateFromCache(cached_lease, clock),
                                        <<"_request", "_validate_from_cache">>)
                  /\ UNCHANGED <<cached_lease, lease_file>>
             ELSE /\ cached_lease' = IF caches THEN lease_ ELSE cached_lease
                  /\ lease_file' = IF caches
                                   THEN PersistLease(client.lease_cache_path,
                                                     lease_file, lease_)
                                   ELSE lease_file
                  /\ cresult' = Outcome("validate",
                                        ClientValidationResult(r.data.valid,
                                            r.data.code, r.data.features, lease_),
                                        <<"_request">>)
    /\ UNCHANGED <<client, in_request, attempt, last_error, auditVars, keyVars,
                   callVars, leaseVars, cfgVars, actVars>>

\* validate_offline
ValidateOffline ==
    /\ client.constructed
    /\ cresult' = Outcome("validate_offline",
                          ValidateFromCache(cached_lease, clock),
                          <<"_validate_from_cache">>)
    /\ UNCHANGED <<client, lease_file, cached_lease, in_request, attempt,
                   last_error, outcomes, reply, auditVars, keyVars, callVars,
                   leaseVars, cfgVars, actVars>>

\* a lease file that json.loads rejects
NotJsonFile == [type |-> "not-json", items |-> <<>>]

\* leases the server never issued: a server lease with a feature added to the
\* payload, one with the expiry moved a day on, and the unsigned lease of
\* tests/unit/test_client.py
ForgedLeases ==
    { [ServerLease(lease_ttl, 0) EXCEPT !.items.payload.val.features =
                                            EditedPayloadValue("features")],
      [ServerLease(lease_ttl, 0) EXCEPT !.items.lease_expires_at =
                                            PyStr(IsoFormat(86400))],
      [type |-> "dict",
       items |-> [payload |-> PyDict([features |-> <<"api">>]),
                  signature |-> PyStr(<<"hex", "sig">>),
                  lease_expires_at |-> PyStr(IsoFormat(86400))]] }

\* values that are no lease
BrokenLeases ==
    { [type |-> "list", items |-> <<>>],
      [SampleLease EXCEPT !.items.lease_expires_at = PyStr(Text("not-a-date"))],
      [SampleLease EXCEPT !.items.payload = PyNone] }

\* someone writes the file at lease_cache_path before the client starts
WriteLeaseFile(l) ==
    /\ ~client.constructed
    /\ lease_file = NoLease
    /\ lease_file' = l
    /\ UNCHANGED <<client, cached_lease, in_request, attempt, last_error, outcomes,
                   reply, cresult, auditVars, keyVars, callVars, leaseVars, cfgVars,
                   actVars>>

\* client._cached_lease = l, as the tests do
PlaceInCache(l) ==
    /\ client.constructed
    /\ cached_lease' = l
    /\ UNCHANGED <<client, lease_file, in_request, attempt, last_error, outcomes,
                   reply, cresult, auditVars, keyVars, callVars, leaseVars, cfgVars,
                   actVars>>

\* what the attempts of a validate call meet: of the outcomes that _request
\* treats alike (timeout and transport error, 5xx and 429) one each
ValidateOutcomes(now) ==
    AttemptOutcomes(now) \ {TransportError, Response(429, NoData)}

\* the attempts after which _request can make another one
Retried(now) == {Timeout, Response(500, NoData)}

RECURSIVE Nets(_, _)
\* what the HTTP attempts of one call made at time now can meet, in order;
\* attempts after one that is never retried are not made and stand as Timeout
Nets(max_retries, now) ==
    IF max_retries <= 0 THEN {<<>>}
    ELSE { <<o>> \o rest : o \in Retried(now), rest \in Nets(max_retries - 1, now) }
         \cup { <<o>> \o [n \in 1..(max_retries - 1) |-> Timeout] :
                    o \in ValidateOutcomes(now) \ Retried(now) }

\* a client that makes one attempt per request (retries are the matter of
\* ValidateSpec and RequestSpec), its cache and lease file open to anyone
NextClient ==
    \/ \E l \in ForgedLeases \cup {NotJsonFile} : WriteLeaseFile(l)
    \/ \E p \in BOOLEAN : NewClient(1, p)
    \/ \E l \in ForgedLeases \cup BrokenLeases : PlaceInCache(l)
    \/ \E net \in Nets(client.max_retries, clock) : Validate(net)
    \/ ValidateOffline
    \/ Tick

ClientSpec == Init /\ [][NextClient]_vars

\* a client that persists its lease and a server, nobody else touching the
\* cache or the file
NextValidate ==
    \/ \E n \in RetryInputs : NewClient(n, TRUE)
    \/ \E net \in Nets(client.max_retries, clock) : Validate(net)
    \/ ValidateOffline
    \/ Tick

ValidateSpec == Init /\ [][NextValidate]_vars

\* _request, one pass of its loop at a time
RequestBegin ==
    /\ client.constructed
    /\ ~in_request
    /\ in_request' = TRUE
    /\ attempt' = 0
    /\ last_error' = ""
    /\ outcomes' = <<>>
    /\ reply' = NoData
    /\ UNCHANGED <<client, lease_file, cached_lease, cresult, auditVars, keyVars,
                   callVars, leaseVars, cfgVars, actVars>>

RequestAttempt(outcome) ==
    /\ in_request
    /\ attempt < client.max_retries
    /\ LET step == RequestStep(client.max_retries, attempt, outcome)
       IN /\ outcomes' = Append(outcomes, outcome)
          /\ last_error' = step.last_error
          /\ reply' = step.data
          /\ in_request' = ~step.done
          /\ attempt' = IF step.done THEN attempt ELSE attempt + 1
    /\ UNCHANGED <<client, lease_file, cached_lease, cresult, auditVars, keyVars,
                   callVars, leaseVars, cfgVars, actVars>>

RequestExhausted ==
    /\ in_request
    /\ attempt >= client.max_retries
    /\ reply' = RetriesExhausted
    /\ in_request' = FALSE
    /\ UNCHANGED <<client, lease_file, cached_lease, attempt, last_error, outcomes,
                   cresult, auditVars, keyVars, callVars, leaseVars, cfgVars,
                   actVars>>

RequestPass ==
    \/ \E outcome \in AttemptOutcomes(clock) : RequestAttempt(outcome)
    \/ RequestExhausted

NextRequest ==
    \/ \E n \in RetryInputs, p \in BOOLEAN : NewClient(n, p)
    \/ RequestBegin
    \/ RequestPass

\* every HTTP call returns or raises within the client's timeout, so a
\* _request call under way always makes its next pass
RequestSpec == Init /\ [][NextRequest]_vars /\ WF_vars(RequestPass)

(***************************************************************************)
(* Client SDK: properties                                                  *)
(***************************************************************************)
\* the signature is the server's over the payload and the expiry held
Authentic(l) ==
    /\ l.type = "dict"
    /\ {"payload", "signature", "lease_expires_at"} \subseteq DOMAIN l.items
    /\ l.items.signature =
           LeaseSignature(l.items.payload, l.items.lease_expires_at, DefaultHmacKey)

ConsultedCache == \E n \in DOMAIN cresult.calls : cresult.calls[n] = "_validate_from_cache"

\* C21: offline validation (validate_offline, and validate falling back to
\* the cache) reports valid=true only for a cached lease that the server
\* issued (its signature authenticates the payload and lease_expires_at) and
\* that has not expired; a lease with an altered payload or expiry or an
\* invalid signature, placed in the cache or the lease file, is never accepted.
C21_OfflineOnlyAuthentic ==
    (ConsultedCache /\ cresult.valid) =>
        /\ Authentic(cresult.lease)
        /\ cresult.at < Instant(cresult.lease.items.lease_expires_at.val)

(***************************************************************************)
(* Keyring configuration (common/config.py)                                *)
(*                                                                         *)
(* The text of VINZY_HMAC_KEYS is a record: the kind of JSON value it      *)
(* holds and, for an object, its members in order, each a key text and a   *)
(* secret.                                                                 *)
(***************************************************************************)
Unset == [kind |-> "unset", pairs |-> <<>>]

JsonObject(pairs) == [kind |-> "object", pairs |-> pairs]

\* a JSON value that is no object ("[]", "null", "3")
JsonOther == [kind |-> "other", pairs |-> <<>>]

\* a text json.loads rejects
JsonInvalid == [kind |-> "invalid", pairs |-> <<>>]

\* key texts of the objects tried and what int() makes of them
IntTexts == [n \in {"0", "1", "01", "5", "33", "-1"} |->
                CASE n = "0" -> 0 [] n = "1" -> 1 [] n = "01" -> 1
                  [] n = "5" -> 5 [] n = "33" -> 33 [] n = "-1" -> 0 - 1]

\* whether int(k) returns
IsIntText(k) == k \in DOMAIN IntTexts

\* int(k)
PyIntOf(k) == IntTexts[k]

\* VINZY_HMAC_KEYS values
HmacKeysInputs ==
    { Unset,
      JsonInvalid,
      JsonOther,
      JsonObject(<<>>),
      JsonObject(<< <<"0", "old-key">>, <<"1", "new-key">> >>),
      JsonObject(<< <<"1", "new-key">>, <<"0", "old-key">> >>),
      JsonObject(<< <<"5", "key-v5">> >>),
      JsonObject(<< <<"0", "old-key">>, <<"1", "new-key">>, <<"5", "key-v5">> >>),
      JsonObject(<< <<"33", "hmac-key-v33">>, <<"1", "hmac-key-v1">> >>),
      JsonObject(<< <<"1", "first">>, <<"01", "second">> >>),
      JsonObject(<< <<"-1", "negative">> >>),
      JsonObject(<< <<"v1", "named">> >>),
      JsonObject(<< <<"0", "old-key">>, <<"latest", "named">> >>) }

RECURSIVE DictOfPairs(_, _)
\* {int(k): v for k, v in raw.items()}: a later member replaces an earlier
\* one with the same int
DictOfPairs(pairs, n) ==
    IF n = 0 THEN <<>>
    ELSE LET before == DictOfPairs(pairs, n - 1)
             k == PyIntOf(pairs[n][1])
         IN (k :> pairs[n][2]) @@ before

\* the property hmac_keyring
HmacKeyring(s) ==
    IF s.hmac_keys.kind = "unset" THEN Returned(0 :> s.hmac_key)
    ELSE IF s.hmac_keys.kind = "invalid" THEN Raised("ValueError")
    ELSE IF s.hmac_keys.kind # "object" THEN Raised("AttributeError")
    ELSE IF \E n \in DOMAIN s.hmac_keys.pairs : ~IsIntText(s.hmac_keys.pairs[n][1])
    THEN Raised("ValueError")
    ELSE Returned(DictOfPairs(s.hmac_keys.pairs, Len(s.hmac_keys.pairs)))

\* the property current_hmac_version: max() of no keys raises ValueError
CurrentHmacVersionOf(s) ==
    LET ring == HmacKeyring(s)
    IN IF ring.raised # "" THEN ring
       ELSE IF DOMAIN ring.value = {} THEN Raised("ValueError")
       ELSE Returned(CurrentHmacVersion(ring.value))

\* the property current_hmac_key
CurrentHmacKeyOf(s) ==
    LET ring == HmacKeyring(s)
        version == CurrentHmacVersionOf(s)
    IN IF ring.raised # "" THEN ring
       ELSE IF version.raised # "" THEN version
       ELSE Returned(ring.value[version.value])

\* VinzySettings() with VINZY_HMAC_KEY and VINZY_HMAC_KEYS in the environment
GetSettings(hmac_key, hmac_keys) ==
    /\ ~settings.built
    /\ settings' = [built |-> TRUE, hmac_key |-> hmac_key, hmac_keys |-> hmac_keys]
    /\ UNCHANGED <<cfgresult, auditVars, keyVars, callVars, leaseVars, clientVars,
                   actVars>>

\* settings.hmac_keyring
ReadHmacKeyring ==
    /\ settings.built
    /\ LET o == HmacKeyring(settings)
       IN cfgresult' = [op |-> "hmac_keyring", raised |-> o.raised,
                        ring |-> IF o.raised = "" THEN o.value ELSE <<>>,
                        version |-> 0, secret |-> ""]
    /\ UNCHANGED <<settings, auditVars, keyVars, callVars, leaseVars, clientVars,
                   actVars>>

\* settings.current_hmac_version
ReadCurrentHmacVersion ==
    /\ settings.built
    /\ LET o == CurrentHmacVersionOf(settings)
       IN cfgresult' = [op |-> "current_hmac_version", raised |-> o.raised,
                        ring |-> <<>>,
                        version |-> IF o.raised = "" THEN o.value ELSE 0,
                        secret |-> ""]
    /\ UNCHANGED <<settings, auditVars, keyVars, callVars, leaseVars, clientVars,
                   actVars>>

\* settings.current_hmac_key
ReadCurrentHmacKey ==
    /\ settings.built
    /\ LET o == CurrentHmacKeyOf(settings)
       IN cfgresult' = [op |-> "current_hmac_key", raised |-> o.raised,
                        ring |-> <<>>, version |-> 0,
                        secret |-> IF o.raised = "" THEN o.value ELSE ""]
    /\ UNCHANGED <<settings, auditVars, keyVars, callVars, leaseVars, clientVars,
                   actVars>>

NextConfig ==
    \/ \E k \in SecretInputs, ks \in HmacKeysInputs : GetSettings(k, ks)
    \/ ReadHmacKeyring
    \/ ReadCurrentHmacVersion
    \/ ReadCurrentHmacKey

ConfigSpec == Init /\ [][NextConfig]_vars

(***************************************************************************)
(* Keyring configuration: properties                                       *)
(***************************************************************************)
\* the versions a configuration names, when every key text is an int
NamedVersions(s) ==
    IF s.hmac_keys.kind = "unset" THEN {0}
    ELSE { PyIntOf(s.hmac_keys.pairs[n][1]) : n \in DOMAIN s.hmac_keys.pairs }

\* loading the keyring did not reject the configuration
KeyringLoaded == settings.built /\ HmacKeyring(settings).raised = ""

\* C22: the keyring loaded from configuration always has at least one
\* entry: a configuration that yields no entries is rejected when the
\* keyring is loaded, so that current_hmac_version and current_hmac_key are
\* always defined and equal the maximum version and that version's secret.
C22_KeyringNeverEmpty ==
    KeyringLoaded =>
        /\ cfgresult.op = "hmac_keyring" => DOMAIN cfgresult.ring # {}
        /\ cfgresult.op = "current_hmac_version" =>
               /\ cfgresult.raised = ""
               /\ cfgresult.version \in NamedVersions(settings)
               /\ \A v \in NamedVersions(settings) : v <= cfgresult.version
        /\ cfgresult.op = "current_hmac_key" =>
               /\ cfgresult.raised = ""
               /\ cfgresult.secret =
                      HmacKeyring(settings).value[SetMax(NamedVersions(settings))]

(***************************************************************************)
(* Machine activation (activation/service.py)                              *)
(*                                                                         *)
(* Every call runs in a session of its own.  The license row is loaded     *)
(* into the session once (by validate_license or get_license_by_key) and   *)
(* license_obj keeps the values read then; the machine is looked up, the   *)
(* limit compared and the row written before the flush; session.delete,    *)
(* the one await in between, has no cascade to load here.                  *)
(***************************************************************************)
\* largest machines_limit a license is created with
MaxMachinesLimit == 2

Fingerprints == {"fp-1", "fp-2", "fp-3"}

\* create_license(..., machines_limit=...)
NewLicense(machines_limit) ==
    /\ ~license_row.exists
    /\ license_row' = [exists |-> TRUE, machines_limit |-> machines_limit,
                       machines_used |-> 0]
    /\ UNCHANGED <<machines, sessions, aresult, auditVars, keyVars, callVars,
                   leaseVars, clientVars, cfgVars>>

\* activate / deactivate up to the load of license_obj
LoadLicense(r, op, fingerprint) ==
    /\ license_row.exists
    /\ sessions[r].pc = "idle"
    /\ sessions' = [sessions EXCEPT ![r] = [pc |-> "loaded", op |-> op,
                                      fingerprint |-> fingerprint,
                                      machines_used |-> license_row.machines_used]]
    /\ UNCHANGED <<license_row, machines, aresult, auditVars, keyVars, callVars,
                   leaseVars, clientVars, cfgVars>>

\* mutant of ActivateFinish: a fingerprint already registered is counted again
ActivateFinishCountsAgain(r) ==
    /\ sessions[r].pc = "loaded"
    /\ sessions[r].op = "activate"
    /\ LET fingerprint == sessions[r].fingerprint
           machines_used == sessions[r].machines_used
       IN IF fingerprint \in machines
          THEN /\ aresult' = [op |-> "activate", by |-> r, raised |-> "",
                              code |-> "ALREADY_ACTIVATED", returned |-> TRUE]
               /\ license_row' = [license_row EXCEPT !.machines_used = machines_used + 1]
               /\ UNCHANGED machines
          ELSE IF machines_used >= license_row.machines_limit
          THEN /\ aresult' = [op |-> "activate", by |-> r,
                              raised |-> "ActivationLimitError",
                              code |-> "", returned |-> FALSE]
               /\ UNCHANGED <<license_row, machines>>
          ELSE /\ machines' = machines \cup {fingerprint}
               /\ license_row' = [license_row EXCEPT !.machines_used = machines_used + 1]
               /\ aresult' = [op |-> "activate", by |-> r, raised |-> "",
                              code |-> "ACTIVATED", returned |-> TRUE]
    /\ sessions' = [sessions EXCEPT ![r] = IdleCall]
    /\ UNCHANGED <<auditVars, keyVars, callVars, leaseVars, clientVars, cfgVars>>

\* the rest of activate: machine lookup, limit check, insert, increment, flush
ActivateFinish(r) ==
    /\ sessions[r].pc = "loaded"
    /\ sessions[r].op = "activate"
    /\ LET fingerprint == sessions[r].fingerprint
           machines_used == sessions[r].machines_used
       IN IF fingerprint \in machines
          THEN /\ aresult' = [op |-> "activate", by |-> r, raised |-> "",
                              code |-> "ALREADY_ACTIVATED", returned |-> TRUE]
               /\ UNCHANGED <<license_row, machines>>
          ELSE IF machines_used >= license_row.machines_limit
          THEN /\ aresult' = [op |-> "activate", by |-> r,
                              raised |-> "ActivationLimitError",
                              code |-> "", returned |-> FALSE]
               /\ UNCHANGED <<license_row, machines>>
          ELSE /\ machines' = machines \cup {fingerprint}
               /\ license_row' = [license_row EXCEPT !.machines_used = machines_used + 1]
               /\ aresult' = [op |-> "activate", by |-> r, raised |-> "",
                              code |-> "ACTIVATED", returned |-> TRUE]
    /\ sessions' = [sessions EXCEPT ![r] = IdleCall]
    /\ UNCHANGED <<auditVars, keyVars, callVars, leaseVars, clientVars, cfgVars>>

\* max(0, n)
Max0(n) == IF n < 0 THEN 0 ELSE n

\* the rest of deactivate: machine lookup, delete, decrement, flush
DeactivateFinish(r) ==
    /\ sessions[r].pc = "loaded"
    /\ sessions[r].op = "deactivate"
    /\ LET fingerprint == sessions[r].fingerprint
           machines_used == sessions[r].machines_used
       IN IF fingerprint \notin machines
          THEN /\ aresult' = [op |-> "deactivate", by |-> r, raised |-> "",
                              code |-> "", returned |-> FALSE]
               /\ UNCHANGED <<license_row, machines>>
          ELSE /\ machines' = machines \ {fingerprint}
               /\ license_row' = [license_row EXCEPT !.machines_used =
                                                         Max0(machines_used - 1)]
               /\ aresult' = [op |-> "deactivate", by |-> r, raised |-> "",
                              code |-> "", returned |-> TRUE]
    /\ sessions' = [sessions EXCEPT ![r] = IdleCall]
    /\ UNCHANGED <<auditVars, keyVars, callVars, leaseVars, clientVars, cfgVars>>

\* sessions of different requests interleave at their awaits
NextActivation ==
    \/ \E n \in 1..MaxMachinesLimit : NewLicense(n)
    \/ \E r \in Requests, op \in {"activate", "deactivate"}, f \in Fingerprints :
           LoadLicense(r, op, f)
    \/ \E r \in Requests : ActivateFinish(r)
    \/ \E r \in Requests : DeactivateFinish(r)

ActivationSpec == Init /\ [][NextActivation]_vars

NoCallUnderWay == \A r \in Requests : sessions[r].pc = "idle"

\* a call starts only when no other call is under way
NextSerialActivation ==
    \/ \E n \in 1..MaxMachinesLimit : NewLicense(n)
    \/ \E r \in Requests, op \in {"activate", "deactivate"}, f \in Fingerprints :
           NoCallUnderWay /\ LoadLicense(r, op, f)
    \/ \E r \in Requests : ActivateFinish(r)
    \/ \E r \in Requests : DeactivateFinish(r)

SerialActivationSpec == Init /\ [][NextSerialActivation]_vars

(***************************************************************************)
(* Machine activation: properties                                          *)
(***************************************************************************)
\* request r leaves activate in this step
Activates(r) == sessions[r].pc = "loaded" /\ sessions[r].op = "activate" /\ sessions'[r].pc = "idle"

\* request r leaves deactivate in this step
Deactivates(r) ==
    sessions[r].pc = "loaded" /\ sessions[r].op = "deactivate" /\ sessions'[r].pc = "idle"

\* an activate with a new fingerprint at a license whose machines_used has
\* reached machines_limit raises ActivationLimitError and writes nothing
LimitEnforced ==
    \A r \in Requests :
        (/\ Activates(r)
         /\ sessions[r].fingerprint \notin machines
         /\ license_row.machines_used >= license_row.machines_limit)
            => /\ aresult'.raised = "ActivationLimitError"
               /\ machines' = machines
               /\ license_row' = license_row

\* C23: for any sequence or interleaving of activate and deactivate sessions,
\* an activate with a not-yet-registered fingerprint fails with
\* ActivationLimitError and changes nothing when machines_used >=
\* machines_limit, so the number of machines registered never exceeds
\* machines_limit.
C23_LimitNeverExceeded ==
    /\ [][LimitEnforced]_vars
    /\ [](Cardinality(machines) <= license_row.machines_limit)

\* an activate of a registered fingerprint answers ALREADY_ACTIVATED and a
\* deactivate of an unregistered one answers false, neither writing the row
RepeatsChangeNothing ==
    \A r \in Requests :
        /\ (Activates(r) /\ sessions[r].fingerprint \in machines)
               => /\ aresult'.code = "ALREADY_ACTIVATED"
                  /\ license_row' = license_row
                  /\ machines' = machines
        /\ (Deactivates(r) /\ sessions[r].fingerprint \notin machines)
               => /\ aresult'.raised = ""
                  /\ ~aresult'.returned
                  /\ license_row' = license_row
                  /\ machines' = machines

\* C29: after any sequence of serialized activate and deactivate calls,
\* machines_used equals the number of machine records stored and is never
\* negative: activating an already-registered fingerprint returns
\* ALREADY_ACTIVATED without changing machines_used, deactivating an
\* unregistered fingerprint returns false without changing it.
C29_UsedCountsMachines ==
    /\ [](/\ license_row.machines_used = Cardinality(machines)
          /\ license_row.machines_used >= 0)
    /\ [][RepeatsChangeNothing]_vars

\* a second activate of a registered fingerprint has answered with both
\* machines of the license still counted
C29_Witness ==
    /\ aresult.code = "ALREADY_ACTIVATED"
    /\ Cardinality(machines) = 2
    /\ license_row.machines_used = 2

\* C24: create_lease sets lease_expires_at to exactly the creation instant
\* plus ttl_seconds (UTC), so a lease is valid for the full ttl_seconds after
\* creation.
C24_ExpiryIsCreationPlusTtl ==
    (issue # NoIssue /\ ltampered = "") =>
        /\ Instant(lease.items.lease_expires_at.val) =
               issue.at + issue.ttl_seconds * TicksPerSecond
        /\ (/\ VerifiedUnmodified
            /\ lresult.at < issue.at + issue.ttl_seconds * TicksPerSecond)
               => lresult.value

\* a response with status 5xx or 429
IsServerError(o) ==
    o.kind = "response" /\ (o.status_code >= 500 \/ o.status_code = 429)

\* a response with another 4xx status
IsClientError(o) ==
    o.kind = "response" /\ o.status_code >= 400 /\ ~IsServerError(o)

\* no answer: a timeout or a transport error
IsConnectionFailure(o) == o.kind \in {"timeout", "http_error"}

\* the last _request call has returned
RequestReturned == ~in_request /\ reply.returned

\* what holds of the attempts made so far and of the dict returned
RetryRules ==
    /\ Len(outcomes) <= client.max_retries
    /\ \A n \in 1..(Len(outcomes) - 1) :
           IsConnectionFailure(outcomes[n]) \/ IsServerError(outcomes[n])
    /\ \A n \in DOMAIN outcomes :
           IsClientError(outcomes[n])
               => /\ n = Len(outcomes)
                  /\ RequestReturned
                  /\ reply = ErrorDict("CLIENT_ERROR")
    /\ (RequestReturned /\ \A n \in DOMAIN outcomes : outcomes[n] = Timeout)
           => /\ reply = ErrorDict("CONNECTION_ERROR")
              /\ Len(outcomes) = client.max_retries
    /\ (/\ RequestReturned
        /\ Len(outcomes) = client.max_retries
        /\ Len(outcomes) > 0
        /\ IsServerError(outcomes[Len(outcomes)]))
           => reply = ErrorDict("SERVER_ERROR")

CacheReplacedByValidLease ==
    cached_lease' # cached_lease
        => /\ ~reply'.error
           /\ reply'.valid
           /\ TruthyLease(reply'.lease)
           /\ cached_lease' = reply'.lease

\* after SERVER_ERROR or CLIENT_ERROR validate answers valid=false without
\* the cache
ErrorsAnswerInvalid ==
    (/\ cresult.called = "validate"
     /\ reply.error
     /\ reply.code \in {"SERVER_ERROR", "CLIENT_ERROR"})
        => (~cresult.valid /\ ~ConsultedCache)

\* C30: validate consults the cached lease only when the request ends with
\* CONNECTION_ERROR (every attempt timed out or hit a transport error): when
\* the retries end with SERVER_ERROR or CLIENT_ERROR it returns valid=false
\* without using the cache; the cached lease is replaced only by a response
\* with valid=true that carries a lease, so an invalid response never
\* overwrites or clears a previously cached lease.
C30_CacheOnlyWhenEveryAttemptFailed ==
    /\ [](/\ (cresult.called = "validate" /\ ConsultedCache)
                 => /\ reply = ErrorDict("CONNECTION_ERROR")
                    /\ \A n \in DOMAIN outcomes : IsConnectionFailure(outcomes[n])
          /\ ErrorsAnswerInvalid)
    /\ [][CacheReplacedByValidLease]_vars

\* C30 as it holds: validate consults the cached lease exactly when the
\* request ends with CONNECTION_ERROR, that is when max_retries is 0 or the
\* last of the max_retries attempts timed out or hit a transport error,
\* whatever the earlier attempts met; the rest as stated.
C30_CacheOnlyWhenLastAttemptFailed ==
    /\ [](/\ cresult.called = "validate"
                 => /\ ConsultedCache <=> reply = ErrorDict("CONNECTION_ERROR")
                    /\ reply = ErrorDict("CONNECTION_ERROR")
                           <=> /\ Len(outcomes) = client.max_retries
                               /\ \/ client.max_retries = 0
                                  \/ IsConnectionFailure(outcomes[Len(outcomes)])
          /\ ErrorsAnswerInvalid)
    /\ [][CacheReplacedByValidLease]_vars

\* a 500 and then a timeout: validate answers from the lease cached earlier
C30_Witness ==
    /\ cresult.called = "validate"
    /\ outcomes = <<Response(500, NoData), Timeout>>
    /\ ConsultedCache
    /\ cresult.code = "OFFLINE_VALID"

(***************************************************************************)
(* Audit chain: forks                                                      *)
(***************************************************************************)
\* row n of a chain carries the prev_hash of an older row of the same chain
SharesPrevHash(rows, n) ==
    \E m \in 1..(n - 1) : rows[m].prev_hash = rows[n].prev_hash

\* two events of the license share a prev_hash
Forked(evs, lic) ==
    LET rows == SelectByLicense(evs, lic, TRUE)
    IN \E n \in 1..Len(rows) : SharesPrevHash(rows, n)

\* the later event of the first forked pair, in creation order
FirstForked(evs, lic) ==
    LET rows == SelectByLicense(evs, lic, TRUE)
    IN rows[CHOOSE n \in 1..Len(rows) :
                /\ SharesPrevHash(rows, n)
                /\ \A k \in 1..(n - 1) : ~SharesPrevHash(rows, k)]

\* C26: once two events of one license share a prev_hash, verify_chain for
\* that license returns valid=false with break_at the later of the two in
\* creation order (the two that forked first, when later appends fork again),
\* and it returns valid=false in every later state, whatever is appended.
C26_ForkStaysInvalid ==
    /\ [](\A lic \in Licenses :
             Forked(events, lic) =>
                 /\ ~VerifyChain(events, keyring, lic).valid
                 /\ VerifyChain(events, keyring, lic).break_at =
                        FirstForked(events, lic).id)
    /\ [][\A lic \in Licenses :
             (Forked(events, lic) /\ ~VerifyChain(events, keyring, lic).valid)
             => (Forked(events', lic)
                 /\ ~VerifyChain(events', keyring', lic).valid)]_vars

\* a fork of two first events, reported at the later one, with a third event
\* appended after it
C26_Witness ==
    \E lic \in Licenses :
        LET rows == SelectByLicense(events, lic, TRUE)
        IN /\ Len(rows) = 3
           /\ rows[1].prev_hash = None
           /\ rows[2].prev_hash = None
           /\ VerifyChain(events, keyring, lic) =
                  [valid |-> FALSE, events_checked |-> 1, break_at |-> rows[2].id]

(***************************************************************************)
(* Audit chain: rows deleted from audit_events                             *)
(***************************************************************************)
\* the stored rows without those at the positions in gone
WithoutRows(evs, gone) ==
    LET Keep(n) == Cardinality({i \in 1..n : i \notin gone})
        At(j) == CHOOSE i \in 1..Len(evs) : i \notin gone /\ Keep(i) = j
    IN [j \in 1..Keep(Len(evs)) |-> evs[At(j)]]

\* some stored rows are deleted; the rows that stay are untouched
DeleteRows(gone) ==
    /\ ~tampered
    /\ gone # {}
    /\ events' = WithoutRows(events, gone)
    /\ tampered' = TRUE
    /\ UNCHANGED <<keyring, pending>>
    /\ UNCHANGED <<keyVars, callVars, leaseVars, clientVars, cfgVars, actVars>>

\* a single writer, key rotation, and one deletion of stored rows
NextDelete ==
    \/ \E lic \in Licenses, shape \in CallShapes :
           ~tampered /\ SerializedRecordEventRead("r1", lic, shape)
    \/ ~tampered /\ RecordEventFlush("r1")
    \/ RotateKey
    \/ \E gone \in SUBSET (1..Len(events)) : DeleteRows(gone)

DeleteSpec == Init /\ [][NextDelete]_vars

\* the positions, in the chain of the license, of the rows a step removed
GoneFrom(before, after) ==
    {i \in 1..Len(before) :
        \A j \in 1..Len(after) : after[j].id # before[i].id}

\* C27: verify_chain does not detect removal of the newest events: when a
\* chain of n events verifies as valid, the chain left by deleting its last k
\* events (1 <= k <= n) verifies as valid with events_checked = n-k, whereas
\* a deletion that takes an event outside that suffix makes verify_chain
\* return valid=false.
C27_OnlySuffixDeletionUndetected ==
    [][(~tampered /\ tampered') =>
          \A lic \in Licenses :
              LET before == SelectByLicense(events, lic, TRUE)
                  after == SelectByLicense(events', lic, TRUE)
                  n == Len(before)
                  gone == GoneFrom(before, after)
                  k == Cardinality(gone)
              IN (k >= 1 /\ VerifyChain(events, keyring, lic).valid) =>
                     IF gone = (n - k + 1)..n
                     THEN VerifyChain(events', keyring', lic) =
                              [valid |-> TRUE, events_checked |-> n - k,
                               break_at |-> None]
                     ELSE ~VerifyChain(events', keyring', lic).valid]_vars

\* the newest event of a three-event chain was deleted and the two that are
\* left verify
C27_Witness ==
    /\ tampered
    /\ \E lic \in Licenses :
           LET rows == SelectByLicense(events, lic, TRUE)
           IN /\ Len(rows) = 2
              /\ rows[1].id = GenerateUuid(1)
              /\ rows[2].id = GenerateUuid(2)
              /\ VerifyChain(events, keyring, lic) =
                     [valid |-> TRUE, events_checked |-> 2, break_at |-> None]

(***************************************************************************)
(* Audit chain: what the hash and the signature cover                      *)
(***************************************************************************)
\* the keyring versions whose secret yields the stored signature of an event
SignedWith(ring, e) ==
    {v \in DOMAIN ring : HmacSha256Hex(ring[v], e.event_hash) = e.signature}

\* the first events of two different licenses, recorded with the same
\* event_type, actor and detail
EqualFirstEvents(a, b) ==
    LET rowsA == SelectByLicense(events, a, TRUE)
        rowsB == SelectByLicense(events, b, TRUE)
    IN /\ a # b
       /\ rowsA # <<>>
       /\ rowsB # <<>>
       /\ rowsA[1].event_type = rowsB[1].event_type
       /\ rowsA[1].actor = rowsB[1].actor
       /\ rowsA[1].detail = rowsB[1].detail

\* equal first events of two licenses carry the same event_hash, and the same
\* signature when one secret signed both
FirstEventsCoincide ==
    \A a, b \in Licenses :
        EqualFirstEvents(a, b) =>
            LET ea == SelectByLicense(events, a, TRUE)[1]
                eb == SelectByLicense(events, b, TRUE)[1]
            IN /\ ea.event_hash = eb.event_hash
               /\ (SignedWith(keyring, ea) \cap SignedWith(keyring, eb) # {}
                   => ea.signature = eb.signature)

\* this step gives row i, of another license, to license b, whose chain was
\* empty
Relabelled(i, b) ==
    /\ ~tampered
    /\ tampered'
    /\ events[i].license_id # b
    /\ events'[i].license_id = b
    /\ SelectByLicense(events, b, TRUE) = <<>>

\* a single writer, key rotation, and one edit of a stored row's license_id
NextRelabel ==
    \/ \E lic \in Licenses, shape \in CallShapes :
           SerializedRecordEventRead("r1", lic, shape)
    \/ RecordEventFlush("r1")
    \/ RotateKey
    \/ \E i \in 1..Len(events) : TamperField(i, "license_id")

RelabelSpec == Init /\ [][NextRelabel]_vars

\* C28 as stated: event_hash and signature depend only on (event_type, actor,
\* detail, prev_hash) and the signing secret: two first events recorded with
\* equal event_type, actor and detail for two different licenses get identical
\* event_hash and signature, and an event re-labelled from license A to a
\* license B whose chain is empty is accepted by verify_chain for B.
C28_AnyRelabelledEventAccepted ==
    /\ [](~tampered => FirstEventsCoincide)
    /\ [][\A i \in 1..Len(events), b \in Licenses :
             Relabelled(i, b) => VerifyChain(events', keyring', b).valid]_vars

\* C28: two first events recorded with equal event_type, actor and detail for
\* two different licenses get identical event_hash and signature, and a first
\* event (prev_hash null) re-labelled from license A to a license B whose
\* chain is empty is accepted by verify_chain for B, while a re-labelled later
\* event of A is reported as the break of B's chain.
C28_FirstEventRelabelledAccepted ==
    /\ [](~tampered => FirstEventsCoincide)
    /\ [][\A i \in 1..Len(events), b \in Licenses :
             Relabelled(i, b) =>
                 VerifyChain(events', keyring', b) =
                     IF events[i].prev_hash = None
                     THEN [valid |-> TRUE, events_checked |-> 1,
                           break_at |-> None]
                     ELSE [valid |-> FALSE, events_checked |-> 0,
                           break_at |-> events[i].id]]_vars

\* the first event of lic-A now carries lic-B, whose chain was empty, and
\* verify_chain accepts it there
C28_Witness ==
    /\ tampered
    /\ Len(events) = 1
    /\ events[1].license_id = "lic-B"
    /\ events[1].event_hash =
           ComputeEventHash(events[1].event_type, events[1].actor,
                            events[1].detail, None)
    /\ VerifySignature(keyring, events[1].event_hash, events[1].signature)
    /\ VerifyChain(events, keyring, "lic-B") =
           [valid |-> TRUE, events_checked |-> 1, break_at |-> None]

====
